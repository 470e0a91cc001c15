------------------------ MODULE AdministrationProofs ------------------------
(***************************************************************************)
(* Proofs about Administration, for any finite set of users and any sets   *)
(* of areas, tokens and requests.                                          *)
(***************************************************************************)
EXTENDS Administration, FiniteSetTheorems, TLAPS

-----------------------------------------------------------------------------
(* Case numbers                                                            *)

\* One request at a time has taken a number, and it is the next one: the row
\* lock lasts from the read of the last value to the commit.
NumberingInv ==
  /\ NumberingTypeOK
  /\ numbers = 1..last
  /\ \A c \in Creators : creator[c].at = "counted" => creator[c].number = last + 1
  /\ \A c \in Creators : creator[c].at # "counted" => creator[c].number = 0
  /\ \A b, c \in Creators :
       creator[b].at = "counted" /\ creator[c].at = "counted" => b = c

\* No step of a request that creates a case leaves a gap, however it fails.
LEMMA NumberingStepInv ==
  ASSUME NumberingInv, NEW c \in Creators, NumberingStep(c)
  PROVE  NumberingInv'
<1> USE DEF NumberingInv, NumberingTypeOK, Creator, NoCreator
<1>1. CASE CountOn(c)
  BY <1>1 DEF CountOn, Unlocked
<1>2. CASE FindNone(c)
  BY <1>2 DEF FindNone
<1>3. CASE InsertRow(c)
  BY <1>3 DEF InsertRow, Unlocked
<1>4. CASE InsertRefused(c)
  BY <1>4 DEF InsertRefused
<1>5. CASE CommitCase(c)
  <2>1. creator[c].number = last + 1 /\ last' = last + 1
    BY <1>5 DEF CommitCase
  <2>2. numbers' = 1..last'
    BY <1>5, <2>1 DEF CommitCase
  <2>3. \A b \in Creators : creator'[b].at # "counted" /\ creator'[b].number = 0
    BY <1>5 DEF CommitCase
  <2>4. NumberingTypeOK'
    BY <1>5, <2>1 DEF CommitCase
  <2> QED BY <2>2, <2>3, <2>4
<1>6. CASE CaseRefused(c)
  <2>1. creator[c].number \notin numbers
    BY <1>6 DEF CaseRefused
  <2>2. creator' = [creator EXCEPT ![c] = NoCreator] /\ UNCHANGED <<last, numbers>>
    BY <1>6, <2>1 DEF CaseRefused
  <2> QED BY <2>2
<1> QED BY <1>1, <1>2, <1>3, <1>4, <1>5, <1>6 DEF NumberingStep

LEMMA NumberingUnchanged ==
  ASSUME NumberingInv, UNCHANGED numberingVars
  PROVE  NumberingInv'
BY DEF NumberingInv, NumberingTypeOK, numberingVars

-----------------------------------------------------------------------------
(* Accounts: types                                                         *)

\* What every open session has loaded, and what every token is about.
Loaded(s) ==
  /\ session[s].op # "idle" => session[s].who \in Users
  /\ session[s].op \in {"rotate", "logout"} =>
       session[s].token \in Tokens /\ token[session[s].token].status # "none"
  /\ session[s].op \in {"assign", "remove"} => session[s].area \in Areas
  /\ session[s].op = "activate" => user[session[s].who].role # "none"

Issued(t) ==
  token[t].status # "none" =>
    /\ token[t].owner \in Users
    /\ token[t].login \in Tokens /\ token[token[t].login].status # "none"

AccountsBase ==
  /\ AccountsTypeOK
  /\ \A s \in Sessions : Loaded(s)
  /\ \A t \in Tokens : Issued(t)
  /\ \A u \in Users : user[u].role = "none" => ~ user[u].active

LEMMA NewAccountBase ==
  ASSUME AccountsBase, NewAccount
  PROVE  AccountsBase'
<1> USE DEF AccountsBase, AccountsTypeOK, User, Role
<1>1. PICK u \in Users : RegisterUser(u) \/ CreateOfficer(u)
  BY DEF NewAccount
<1>2. \E r \in {"civilian", "area_officer"} :
        user' = [user EXCEPT ![u] = [role |-> r, active |-> TRUE]]
  BY <1>1 DEF RegisterUser, CreateOfficer
<1>3. UNCHANGED <<assigned, token, session, serial>>
  BY <1>1 DEF RegisterUser, CreateOfficer
<1>4. AccountsTypeOK' /\ \A v \in Users : user'[v].role = "none" => user[v].role = "none" /\ ~ user'[v].active
  BY <1>2, <1>3
<1>5. (\A s \in Sessions : Loaded(s)') /\ (\A t \in Tokens : Issued(t)')
  BY <1>3, <1>4 DEF Loaded, Issued
<1> QED BY <1>4, <1>5

\* What a request finds in the database when it begins.
Checked(x) ==
  /\ x.op # "idle" /\ x.who \in Users
  /\ x.op = "login" => user[x.who].active /\ x.current
  /\ x.op = "rotate" =>
       /\ x.token \in Tokens /\ Live(x.token) /\ x.who = token[x.token].owner
       /\ user[x.who].active /\ x.current = token[x.token].current
  /\ x.op = "logout" => x.token \in Tokens /\ Live(x.token)
  /\ x.op \in {"activate", "deactivate"} => x.active = user[x.who].active
  /\ x.op \in {"activate", "deactivate"} => user[x.who].role # "none"
  /\ x.op = "deactivate" => MayDeactivate(x.who)
  /\ x.op = "promote" => user[x.who].role = "civilian"
  /\ x.op \in {"demote", "assign"} => Officer(x.who)
  /\ x.op \in {"assign", "remove"} => x.area \in Areas

LEMMA AboutRow ==
  ASSUME NEW op \in Operation, NEW u \in Users
  PROVE  LET x == About(op, u)
         IN  x \in Session /\ x.op = op /\ x.who = u
<1> DEFINE i == Idle
<1>1. i \in Session
  BY DEF Idle, Session, Operation
<1> HIDE DEF i
<1>2. LET x == [i EXCEPT !.op = op, !.who = u]
      IN  x \in Session /\ x.op = op /\ x.who = u
  BY <1>1 DEF Session
<1> QED BY <1>2 DEF About, i

\* Every request begins with what it finds.
LEMMA LoadChecks ==
  ASSUME AccountsBase, NEW s \in Sessions, Load(s)
  PROVE  \E x \in Session : Begin(s, x) /\ Checked(x)
<1> USE DEF AccountsBase, AccountsTypeOK
<1>1. ASSUME NEW u \in Users, LoadLogin(s, u)
      PROVE  \E x \in Session : Begin(s, x) /\ Checked(x)
  <2> DEFINE r == About("login", u)
             x == [r EXCEPT !.current = TRUE]
  <2>1. r \in Session /\ r.op = "login" /\ r.who = u
    BY AboutRow DEF Operation
  <2>2. Begin(s, x) /\ MayLogin(u)
    BY <1>1 DEF LoadLogin
  <2> HIDE DEF r
  <2>3. x \in Session /\ x.op = "login" /\ x.who = u /\ x.current
    BY <2>1 DEF Session
  <2> HIDE DEF x
  <2>4. Checked(x)
    BY <2>2, <2>3 DEF Checked, MayLogin
  <2> QED BY <2>2, <2>3, <2>4
<1>2. ASSUME NEW t \in Tokens, LoadRotate(s, t)
      PROVE  \E x \in Session : Begin(s, x) /\ Checked(x)
  <2> DEFINE u == token[t].owner
             r == About("rotate", u)
             x == [r EXCEPT !.token = t, !.current = token[t].current]
  <2>1. Live(t) /\ user[u].active /\ u \in Users /\ token[t].current \in BOOLEAN
    BY <1>2 DEF LoadRotate, MayRefresh, Live, Issued, Token
  <2>2. r \in Session /\ r.op = "rotate" /\ r.who = u
    BY <2>1, AboutRow DEF Operation
  <2>3. Begin(s, x)
    BY <1>2 DEF LoadRotate
  <2> HIDE DEF r
  <2>4. /\ x \in Session /\ x.op = "rotate" /\ x.who = u
        /\ x.token = t /\ x.current = token[t].current
    BY <2>1, <2>2 DEF Session
  <2> HIDE DEF x
  <2>5. Checked(x)
    BY <2>1, <2>4 DEF Checked
  <2> QED BY <2>3, <2>4, <2>5
<1>3. ASSUME NEW t \in Tokens, LoadLogout(s, t)
      PROVE  \E x \in Session : Begin(s, x) /\ Checked(x)
  <2> DEFINE u == token[t].owner
             r == About("logout", u)
             x == [r EXCEPT !.token = t]
  <2>1. Live(t) /\ u \in Users
    BY <1>3 DEF LoadLogout, Live, Issued
  <2>2. r \in Session /\ r.op = "logout" /\ r.who = u
    BY <2>1, AboutRow DEF Operation
  <2>3. Begin(s, x)
    BY <1>3 DEF LoadLogout
  <2> HIDE DEF r
  <2>4. x \in Session /\ x.op = "logout" /\ x.who = u /\ x.token = t
    BY <2>2 DEF Session
  <2> HIDE DEF x
  <2>5. Checked(x)
    BY <2>1, <2>4 DEF Checked
  <2> QED BY <2>3, <2>4, <2>5
<1>4. ASSUME NEW u \in Users,
             LoadChangePassword(s, u) \/ LoadPromote(s, u) \/ LoadDemote(s, u)
      PROVE  \E x \in Session : Begin(s, x) /\ Checked(x)
  <2>1. \E op \in {"change_password", "promote", "demote"} :
          /\ Begin(s, About(op, u))
          /\ op = "promote" => user[u].role = "civilian"
          /\ op = "demote" => Officer(u)
    BY <1>4 DEF LoadChangePassword, LoadPromote, LoadDemote
  <2>2. PICK op \in {"change_password", "promote", "demote"} :
          /\ Begin(s, About(op, u))
          /\ op = "promote" => user[u].role = "civilian"
          /\ op = "demote" => Officer(u)
    BY <2>1
  <2> DEFINE x == About(op, u)
  <2>3. x \in Session /\ x.op = op /\ x.who = u
    BY AboutRow DEF Operation
  <2>4. Begin(s, x)
    BY <2>2
  <2> HIDE DEF x
  <2>5. Checked(x)
    BY <2>2, <2>3 DEF Checked
  <2> QED BY <2>3, <2>4, <2>5
<1>5. ASSUME NEW u \in Users, LoadActivate(s, u) \/ LoadDeactivate(s, u)
      PROVE  \E x \in Session : Begin(s, x) /\ Checked(x)
  <2>1. \E op \in {"activate", "deactivate"} :
          /\ Begin(s, [About(op, u) EXCEPT !.active = user[u].active])
          /\ user[u].role # "none"
          /\ op = "deactivate" => MayDeactivate(u)
    BY <1>5 DEF LoadActivate, LoadDeactivate
  <2>2. PICK op \in {"activate", "deactivate"} :
          /\ Begin(s, [About(op, u) EXCEPT !.active = user[u].active])
          /\ user[u].role # "none"
          /\ op = "deactivate" => MayDeactivate(u)
    BY <2>1
  <2> DEFINE r == About(op, u)
             x == [r EXCEPT !.active = user[u].active]
  <2>3. r \in Session /\ r.op = op /\ r.who = u
    BY AboutRow DEF Operation
  <2>4. Begin(s, x)
    BY <2>2
  <2> HIDE DEF r
  <2>5. x \in Session /\ x.op = op /\ x.who = u /\ x.active = user[u].active
    BY <2>3 DEF Session, User
  <2> HIDE DEF x
  <2>6. Checked(x)
    BY <2>2, <2>5 DEF Checked
  <2> QED BY <2>4, <2>5, <2>6
<1>6. ASSUME NEW u \in Users, NEW a \in Areas, LoadAssign(s, u, a) \/ LoadRemove(s, u, a)
      PROVE  \E x \in Session : Begin(s, x) /\ Checked(x)
  <2>1. \E op \in {"assign", "remove"} :
          /\ Begin(s, [About(op, u) EXCEPT !.area = a])
          /\ op = "assign" => Officer(u)
    BY <1>6 DEF LoadAssign, LoadRemove
  <2>2. PICK op \in {"assign", "remove"} :
          /\ Begin(s, [About(op, u) EXCEPT !.area = a])
          /\ op = "assign" => Officer(u)
    BY <2>1
  <2> DEFINE r == About(op, u)
             x == [r EXCEPT !.area = a]
  <2>3. r \in Session /\ r.op = op /\ r.who = u
    BY AboutRow DEF Operation
  <2>4. Begin(s, x)
    BY <2>2
  <2> HIDE DEF r
  <2>5. x \in Session /\ x.op = op /\ x.who = u /\ x.area = a
    BY <2>3 DEF Session
  <2> HIDE DEF x
  <2>6. Checked(x)
    BY <2>2, <2>5 DEF Checked
  <2> QED BY <2>4, <2>5, <2>6
<1> QED BY <1>1, <1>2, <1>3, <1>4, <1>5, <1>6 DEF Load

LEMMA LoadBase ==
  ASSUME AccountsBase, NEW s \in Sessions, NEW x \in Session, Begin(s, x), Checked(x)
  PROVE  AccountsBase'
<1> USE DEF AccountsBase, AccountsTypeOK
<1>1. /\ session' = [session EXCEPT ![s] = x]
      /\ UNCHANGED <<user, assigned, token>>
      /\ serial' \in BOOLEAN
  BY DEF Begin
<1>2. \A r \in Sessions : Loaded(r)'
  BY <1>1 DEF Loaded, Checked, Live
<1>3. \A t \in Tokens : Issued(t)'
  BY <1>1 DEF Issued
<1> QED BY <1>1, <1>2, <1>3

\* Statements that revoke tokens change nothing else about them.
LEMMA AllRevoked ==
  ASSUME AccountsTypeOK, NEW u \in Users
  PROVE  /\ RevokedAll(u) \in [Tokens -> Token]
         /\ \A o \in Tokens :
              /\ RevokedAll(u)[o].owner = token[o].owner
              /\ RevokedAll(u)[o].login = token[o].login
              /\ RevokedAll(u)[o].status = "none" <=> token[o].status = "none"
              /\ RevokedAll(u)[o].status = "live" <=> Live(o) /\ token[o].owner # u
              /\ Live(o) /\ token[o].owner # u => RevokedAll(u)[o].current = token[o].current
BY DEF AccountsTypeOK, RevokedAll, Token, Live

LEMMA OneSpent ==
  ASSUME AccountsTypeOK, NEW t \in Tokens
  PROVE  /\ Spent(t) \in [Tokens -> Token]
         /\ \A o \in Tokens :
              /\ Spent(t)[o].owner = token[o].owner
              /\ Spent(t)[o].login = token[o].login
              /\ token[o].status # "none" => Spent(t)[o].status # "none"
              /\ o # t => Spent(t)[o] = token[o]
         /\ Spent(t)[t].status = "revoked"
BY ZenonT(40) DEF AccountsTypeOK, Spent, Token

\* A session that ends leaves nothing loaded.
LEMMA EndBase ==
  ASSUME AccountsBase, NEW s \in Sessions, End(s), UNCHANGED serial,
         user' \in [Users -> User], assigned' \subseteq Users \X Areas,
         token' \in [Tokens -> Token],
         \A u \in Users : user'[u].role = "none" =>
                           user[u].role = "none" /\ ~ user'[u].active,
         \A t \in Tokens : Issued(t)',
         \A t \in Tokens : token[t].status # "none" => token'[t].status # "none"
  PROVE  AccountsBase'
<1> USE DEF AccountsBase, AccountsTypeOK
<1>1. Idle \in Session /\ Idle.op = "idle"
  BY DEF Idle, Session, Operation
<1> HIDE DEF Idle
<1>2. session' = [session EXCEPT ![s] = Idle]
  BY DEF End
<1>3. session' \in [Sessions -> Session]
  BY <1>1, <1>2
<1>4. \A r \in Sessions : Loaded(r)'
  BY <1>1, <1>2 DEF Loaded
<1> QED BY <1>3, <1>4

LEMMA IssueTokenBase ==
  ASSUME AccountsBase, NEW s \in Sessions, IssueToken(s)
  PROVE  AccountsBase'
<1> USE DEF AccountsBase, AccountsTypeOK
<1> DEFINE x == session[s]
           rest == IF x.op = "rotate" THEN Spent(x.token) ELSE token
<1>1. PICK t \in Tokens :
        /\ Unused(t)
        /\ token' = [rest EXCEPT ![t] =
             [status |-> "live", owner |-> x.who,
              login |-> IF x.op = "login" THEN t ELSE token[x.token].login,
              current |-> x.current]]
  BY DEF IssueToken
<1>2. x \in Session /\ x.op \in {"login", "rotate"} /\ x.who \in Users
  BY DEF IssueToken, Loaded
<1>3. x.op = "rotate" => x.token \in Tokens /\ token[x.token].login \in Tokens
                          /\ token[token[x.token].login].status # "none"
  BY <1>2 DEF Loaded, Issued
<1>4. /\ rest \in [Tokens -> Token]
      /\ \A o \in Tokens : /\ rest[o].owner = token[o].owner
                           /\ rest[o].login = token[o].login
                           /\ token[o].status # "none" => rest[o].status # "none"
  BY <1>3, OneSpent
<1> HIDE DEF rest
<1>5. token' \in [Tokens -> Token]
  BY <1>1, <1>2, <1>3, <1>4 DEF Token, Session
<1>6. token'[t].status = "live" /\ \A o \in Tokens : o # t => token'[o] = rest[o]
  BY <1>1, <1>4
<1>7. \A o \in Tokens : token[o].status # "none" => token'[o].status # "none"
  BY <1>4, <1>6
<1>8. token'[t].login \in Tokens /\ token'[token'[t].login].status # "none"
  <2>1. CASE x.op = "login"
    BY <1>1, <1>4, <1>6, <2>1
  <2>2. CASE x.op = "rotate"
    BY <1>1, <1>3, <1>4, <1>7, <2>2
  <2> QED BY <1>2, <2>1, <2>2
<1>9. \A o \in Tokens : Issued(o)'
  <2>1. ASSUME NEW o \in Tokens, o # t, token'[o].status # "none"
        PROVE  Issued(o)'
    <3>1. token[o].status # "none" \/ (x.op = "rotate" /\ o = x.token)
      <4>1. x.op = "rotate" /\ o # x.token => rest[o] = token[o]
        BY <1>3, OneSpent DEF rest
      <4> QED BY <1>2, <1>6, <2>1, <4>1 DEF rest
    <3>2. token[o].status # "none"
      BY <1>2, <3>1 DEF Loaded
    <3> QED BY <1>4, <1>6, <1>7, <2>1, <3>2 DEF Issued
  <2>2. Issued(t)'
    BY <1>1, <1>2, <1>4, <1>8 DEF Issued
  <2> QED BY <2>1, <2>2 DEF Issued
<1>10. End(s) /\ UNCHANGED <<user, assigned, serial>>
  BY DEF IssueToken
<1> QED BY <1>5, <1>7, <1>9, <1>10, EndBase

LEMMA CommitBase ==
  ASSUME AccountsBase, NEW s \in Sessions, Commit(s)
  PROVE  AccountsBase'
<1> USE DEF AccountsBase, AccountsTypeOK
<1> DEFINE u == session[s].who
<1>1. CASE IssueToken(s)
  BY <1>1, IssueTokenBase
<1>2. CASE Logout(s)
  <2>1. session[s].token \in Tokens
    BY <1>2 DEF Logout, Loaded
  <2>2. /\ token' \in [Tokens -> Token]
        /\ \A t \in Tokens : Issued(t)'
        /\ \A t \in Tokens : token[t].status # "none" => token'[t].status # "none"
    <3> DEFINE o == session[s].token
    <3>1. token' = Spent(o) /\ token[o].status # "none"
      BY <1>2 DEF Logout, Loaded
    <3> HIDE DEF o
    <3>2. /\ token' \in [Tokens -> Token]
          /\ \A t \in Tokens : /\ token'[t].owner = token[t].owner
                               /\ token'[t].login = token[t].login
                               /\ token[t].status # "none" => token'[t].status # "none"
                               /\ t # o => token'[t] = token[t]
      BY <2>1, <3>1, OneSpent DEF o
    <3> QED BY <3>1, <3>2 DEF Issued
  <2>3. /\ End(s) /\ UNCHANGED <<user, assigned, serial>>
        /\ \A v \in Users : user'[v].role = "none" => user[v].role = "none" /\ ~ user'[v].active
    BY <1>2 DEF Logout
  <2> QED BY <2>2, <2>3, EndBase
<1>3. ASSUME NEW v \in Users, token' = RevokedAll(v)
      PROVE  /\ token' \in [Tokens -> Token]
             /\ \A t \in Tokens : Issued(t)'
             /\ \A t \in Tokens : token[t].status # "none" => token'[t].status # "none"
  BY <1>3, AllRevoked DEF Issued
<1>4. ASSUME UNCHANGED token
      PROVE  /\ token' \in [Tokens -> Token]
             /\ \A t \in Tokens : Issued(t)'
             /\ \A t \in Tokens : token[t].status # "none" => token'[t].status # "none"
  BY <1>4 DEF Issued
<1>5. CASE ChangePassword(s)
  <2>1. u \in Users /\ token' = RevokedAll(u) /\ UNCHANGED <<user, assigned, serial>>
    BY <1>5 DEF ChangePassword, Loaded
  <2>2. session' = [r \in Sessions |->
                      IF r = s THEN Idle
                      ELSE IF session[r].who = u THEN [session[r] EXCEPT !.current = FALSE]
                      ELSE session[r]]
    BY <1>5 DEF ChangePassword
  <2>3. Idle \in Session /\ Idle.op = "idle"
    BY DEF Idle, Session, Operation
  <2> HIDE DEF Idle
  <2>4. \A r \in Sessions :
          /\ session'[r] \in Session
          /\ session'[r].op # "idle" =>
               /\ session'[r].op = session[r].op
               /\ session'[r].who = session[r].who
               /\ session'[r].token = session[r].token
               /\ session'[r].area = session[r].area
    BY <2>2, <2>3 DEF Session
  <2>5. \A r \in Sessions : Loaded(r)'
    BY <1>3, <2>1, <2>4 DEF Loaded
  <2>6. session' \in [Sessions -> Session]
    BY <2>2, <2>4
  <2> QED BY <1>3, <2>1, <2>5, <2>6
<1>6. CASE Activate(s) \/ Deactivate(s)
  <2>1. u \in Users /\ (session[s].op = "activate" => user[u].role # "none")
    BY <1>6 DEF Activate, Deactivate, Loaded
  <2>2. /\ user' \in [Users -> User]
        /\ \A v \in Users : user'[v].role = "none" => user[v].role = "none" /\ ~ user'[v].active
    <3>1. \/ user' = user
          \/ user' = [user EXCEPT ![u].active = TRUE] /\ user[u].role # "none"
          \/ user' = [user EXCEPT ![u].active = FALSE]
      BY <1>6, <2>1 DEF Activate, Deactivate
    <3> HIDE DEF u
    <3>2. CASE user' = user
      BY <3>2
    <3>3. CASE user' = [user EXCEPT ![u].active = TRUE] /\ user[u].role # "none"
      BY <2>1, <3>3 DEF User
    <3>4. CASE user' = [user EXCEPT ![u].active = FALSE]
      BY <2>1, <3>4 DEF User
    <3> QED BY <3>1, <3>2, <3>3, <3>4
  <2>3. /\ token' \in [Tokens -> Token]
        /\ \A t \in Tokens : Issued(t)'
        /\ \A t \in Tokens : token[t].status # "none" => token'[t].status # "none"
    BY <1>3, <1>4, <1>6, <2>1 DEF Activate, Deactivate
  <2>4. End(s) /\ UNCHANGED <<assigned, serial>>
    BY <1>6 DEF Activate, Deactivate
  <2> QED BY <2>2, <2>3, <2>4, EndBase
<1>7. CASE Promote(s) \/ Demote(s)
  <2>1. u \in Users
    BY <1>7 DEF Promote, Demote, Loaded
  <2>2. /\ user' \in [Users -> User]
        /\ \A v \in Users : user'[v].role = "none" => user[v].role = "none" /\ ~ user'[v].active
        /\ assigned' \subseteq Users \X Areas
    BY <1>7, <2>1 DEF Promote, Demote, User, Role, Unassigned
  <2> QED BY <1>3, <1>4, <1>7, <2>1, <2>2, EndBase DEF Promote, Demote
<1>8. CASE Assign(s) \/ Remove(s)
  <2>1. u \in Users /\ session[s].area \in Areas
    BY <1>8 DEF Assign, Remove, Loaded
  <2> QED BY <1>4, <1>8, <2>1, EndBase DEF Assign, Remove
<1>9. CASE RollBack(s)
  BY <1>4, <1>9, EndBase DEF RollBack
<1> QED BY <1>1, <1>2, <1>5, <1>6, <1>7, <1>8, <1>9 DEF Commit

-----------------------------------------------------------------------------
(* Accounts while requests do not overlap                                  *)

TokensTidy ==
  /\ \A t \in Tokens : Live(t) =>
       user[token[t].owner].active /\ token[t].current
  /\ \A t, o \in Tokens :
       Live(t) /\ Live(o) /\ token[t].login = token[o].login => t = o

StaffTidy ==
  /\ \A p \in assigned : Officer(p[1])
  /\ Founders # {} => ActiveAdmins # {}

\* At most one request is open, and what it found is still so.
Alone ==
  /\ \A r, s \in Sessions :
       session[r].op # "idle" /\ session[s].op # "idle" => r = s
  /\ \A s \in Sessions : session[s].op # "idle" => Checked(session[s])

SerialInv == serial => TokensTidy /\ StaffTidy /\ Alone

\* A new account changes nothing for anybody who has one.
LEMMA NewAccountSerial ==
  ASSUME AccountsBase, SerialInv, NewAccount
  PROVE  SerialInv'
<1> USE DEF AccountsBase, AccountsTypeOK
<1>1. PICK u \in Users : RegisterUser(u) \/ CreateOfficer(u)
  BY DEF NewAccount
<1>2. /\ user[u].role = "none"
      /\ \A v \in Users : v # u => user'[v] = user[v]
      /\ user'[u].role \in {"civilian", "area_officer"}
      /\ UNCHANGED <<assigned, token, session, serial>>
  BY <1>1 DEF RegisterUser, CreateOfficer
<1>3. ActiveAdmins' = ActiveAdmins
  BY <1>2 DEF ActiveAdmins
<1>4. ASSUME serial
      PROVE  TokensTidy' /\ StaffTidy' /\ Alone'
  <2>1. TokensTidy'
    BY <1>2, <1>4 DEF SerialInv, TokensTidy, Live, Issued
  <2>2. StaffTidy'
    BY <1>2, <1>3, <1>4 DEF SerialInv, StaffTidy, Officer
  <2>3. ASSUME NEW s \in Sessions, session[s].op # "idle"
        PROVE  Checked(session[s])'
    <3>1. PICK x \in Session : session'[s] = x /\ Checked(x)
      BY <1>2, <1>4, <2>3 DEF SerialInv, Alone
    <3>2. x.op = "deactivate" => MayDeactivate(x.who)'
      BY <1>3, <3>1 DEF Checked, MayDeactivate
    <3>3. x.op \in {"login", "rotate", "activate", "deactivate", "promote",
                      "demote", "assign"} => user'[x.who] = user[x.who]
      BY <1>2, <3>1 DEF Checked, Officer
    <3>4. /\ x.op \in {"activate", "deactivate"} => x.active = user'[x.who].active
          /\ x.op = "rotate" => user'[x.who].active
          /\ x.op = "login" => user'[x.who].active
      BY <3>1, <3>3 DEF Checked
    <3> QED BY <1>2, <3>1, <3>2, <3>3, <3>4 DEF Checked, Officer, Live
  <2>4. Alone'
    <3>1. \A r, s \in Sessions :
            session'[r].op # "idle" /\ session'[s].op # "idle" => r = s
      BY <1>2, <1>4 DEF SerialInv, Alone
    <3>2. \A s \in Sessions : session'[s].op # "idle" => Checked(session[s])'
      BY <1>2, <2>3
    <3> QED BY <3>1, <3>2 DEF Alone
  <2> QED BY <2>1, <2>2, <2>4
<1> QED BY <1>2, <1>4 DEF SerialInv

\* A request that begins while none is open is alone.
LEMMA LoadSerial ==
  ASSUME AccountsBase, SerialInv, NEW s \in Sessions, NEW x \in Session,
         Begin(s, x), Checked(x)
  PROVE  SerialInv'
<1> USE DEF AccountsBase, AccountsTypeOK
<1>1. /\ session' = [session EXCEPT ![s] = x]
      /\ UNCHANGED <<user, assigned, token>>
      /\ serial' => serial /\ \A r \in Sessions : session[r].op = "idle"
  BY DEF Begin
<1>2. ASSUME serial'
      PROVE  TokensTidy' /\ StaffTidy' /\ Alone'
  <2>1. TokensTidy' /\ StaffTidy'
    BY <1>1, <1>2 DEF SerialInv, TokensTidy, StaffTidy, Live, Officer, ActiveAdmins
  <2>2. \A r \in Sessions : session'[r].op # "idle" => r = s
    BY <1>1, <1>2
  <2>3. session'[s] = x
    BY <1>1
  <2>4. Checked(session[s])'
    BY <1>1, <2>3 DEF Checked, Live, Officer, MayDeactivate, ActiveAdmins
  <2>5. \A r \in Sessions : session'[r].op # "idle" => Checked(session[r])'
    BY <2>2, <2>4
  <2> QED BY <2>1, <2>2, <2>5 DEF Alone
<1> QED BY <1>2 DEF SerialInv

\* A commit ends its own session; the others keep what they are about.
LEMMA CommitEnds ==
  ASSUME AccountsBase, NEW s \in Sessions, Commit(s)
  PROVE  /\ session[s].op # "idle" /\ UNCHANGED serial
         /\ \A r \in Sessions : session'[r].op # "idle" =>
              /\ r # s
              /\ session'[r].op = session[r].op
              /\ session'[r].who = session[r].who
<1> USE DEF AccountsBase, AccountsTypeOK
<1>1. Idle.op = "idle"
  BY DEF Idle
<1> HIDE DEF Idle
<1>2. CASE ChangePassword(s)
  <2>1. \A r \in Sessions :
          session'[r] = IF r = s THEN Idle
                        ELSE IF session[r].who = session[s].who
                             THEN [session[r] EXCEPT !.current = FALSE]
                             ELSE session[r]
    BY <1>2 DEF ChangePassword
  <2>2. \A r \in Sessions : r # s =>
          session'[r].op = session[r].op /\ session'[r].who = session[r].who
    BY <2>1 DEF Session
  <2> QED BY <1>1, <1>2, <2>1, <2>2 DEF ChangePassword
<1>3. ASSUME End(s)
      PROVE  \A r \in Sessions : session'[r].op # "idle" => r # s /\ session'[r] = session[r]
  BY <1>1, <1>3 DEF End
<1>4. CASE IssueToken(s) \/ Logout(s) \/ Activate(s) \/ Deactivate(s) \/ Promote(s)
  BY <1>3, <1>4 DEF IssueToken, Logout, Activate, Deactivate, Promote
<1>5. CASE Demote(s) \/ Assign(s) \/ Remove(s) \/ RollBack(s)
  BY <1>3, <1>5 DEF Demote, Assign, Remove, RollBack
<1> QED BY <1>2, <1>4, <1>5 DEF Commit

\* A new token takes the place of the one it was exchanged for.
LEMMA IssueTokenTidy ==
  ASSUME AccountsBase, TokensTidy, NEW s \in Sessions, Checked(session[s]), IssueToken(s)
  PROVE  TokensTidy'
<1> USE DEF AccountsBase, AccountsTypeOK
<1> DEFINE old == session[s].token
           rest == IF session[s].op = "rotate" THEN Spent(old) ELSE token
<1>1. PICK x \in Session : x = session[s] /\ Checked(x)
  OBVIOUS
<1>2. PICK t \in Tokens :
        /\ Unused(t)
        /\ token' = [rest EXCEPT ![t] =
             [status |-> "live", owner |-> x.who,
              login |-> IF x.op = "login" THEN t ELSE token[x.token].login,
              current |-> x.current]]
  BY <1>1 DEF IssueToken
<1>3. x.op \in {"login", "rotate"} /\ x.who \in Users /\ UNCHANGED user
  BY <1>1 DEF IssueToken, Checked
<1>4. user[x.who].active /\ x.current
  BY <1>1, <1>3 DEF Checked, TokensTidy
<1>5. /\ rest \in [Tokens -> Token]
      /\ \A o \in Tokens : rest[o].status = "live" =>
           /\ rest[o] = token[o] /\ Live(o)
           /\ x.op = "rotate" => o # x.token
  <2>1. CASE x.op = "rotate"
    BY <1>1, <2>1, OneSpent DEF Checked, Live
  <2>2. CASE x.op = "login"
    BY <1>1, <2>2 DEF Live
  <2> QED BY <1>3, <2>1, <2>2
<1> HIDE DEF rest
<1>6. /\ token'[t].status = "live" /\ token'[t].owner = x.who /\ token'[t].current
      /\ token'[t].login = (IF x.op = "login" THEN t ELSE token[x.token].login)
      /\ \A o \in Tokens : o # t => token'[o] = rest[o]
  BY <1>2, <1>4, <1>5
<1>7. \A o \in Tokens : o # t /\ token'[o].status = "live" =>
        /\ token'[o] = token[o] /\ Live(o)
        /\ token'[o].login # token'[t].login
  <2>1. ASSUME NEW o \in Tokens, o # t, token'[o].status = "live"
        PROVE  token'[o] = token[o] /\ Live(o) /\ (x.op = "rotate" => o # x.token)
    BY <1>5, <1>6, <2>1
  <2>2. ASSUME NEW o \in Tokens, Live(o), x.op = "rotate" => o # x.token
        PROVE  token[o].login # token'[t].login
    <3>1. CASE x.op = "login"
      BY <1>2, <1>6, <2>2, <3>1 DEF Issued, Live, Unused
    <3>2. CASE x.op = "rotate"
      BY <1>1, <1>6, <2>2, <3>2 DEF Checked, TokensTidy
    <3> QED BY <1>3, <3>1, <3>2
  <2> QED BY <2>1, <2>2
<1> QED BY <1>3, <1>4, <1>6, <1>7 DEF TokensTidy, Live

\* Revoking tokens of users who lose their rights leaves the others in order.
LEMMA FewerTidy ==
  ASSUME TokensTidy,
         \A t \in Tokens : token'[t].status = "live" =>
           /\ Live(t)
           /\ token'[t].owner = token[t].owner /\ token'[t].login = token[t].login
           /\ token'[t].current = token[t].current
           /\ user[token[t].owner].active => user'[token[t].owner].active
  PROVE  TokensTidy'
BY DEF TokensTidy, Live

\* One of several super admins leaves another.
LEMMA AnotherAdmin ==
  ASSUME AccountsBase, NEW u \in Users, MayDeactivate(u), ActiveAdmins # {}
  PROVE  ActiveAdmins \ {u} # {}
<1>1. CASE u \notin ActiveAdmins
  BY <1>1
<1>2. CASE u \in ActiveAdmins
  <2>1. IsFiniteSet(ActiveAdmins)
    BY FS_Subset, AccountsAssumption DEF ActiveAdmins
  <2>2. Cardinality(ActiveAdmins) > 1
    BY <1>2 DEF MayDeactivate
  <2>3. Cardinality(ActiveAdmins \ {u}) = Cardinality(ActiveAdmins) - 1
    BY <1>2, <2>1, FS_RemoveElement
  <2>4. Cardinality({}) = 0
    BY FS_EmptySet
  <2>5. Cardinality(ActiveAdmins) \in Nat
    BY <2>1, FS_CardinalityType
  <2> QED BY <2>2, <2>3, <2>4, <2>5
<1> QED BY <1>1, <1>2

LEMMA CommitTidy ==
  ASSUME AccountsBase, TokensTidy, StaffTidy, NEW s \in Sessions,
         Checked(session[s]), Commit(s)
  PROVE  TokensTidy' /\ StaffTidy'
<1> USE DEF AccountsBase, AccountsTypeOK
<1>1. PICK x \in Session : x = session[s] /\ Checked(x)
  OBVIOUS
<1>2. x.who \in Users
  BY <1>1 DEF Checked
<1>3. CASE IssueToken(s)
  <2>1. UNCHANGED <<user, assigned>>
    BY <1>3 DEF IssueToken
  <2> QED BY <1>3, <2>1, IssueTokenTidy DEF StaffTidy, Officer, ActiveAdmins
<1>4. ASSUME token' = token \/ token' = RevokedAll(x.who),
             \A v \in Users : v # x.who => user'[v] = user[v],
             token' = token /\ user[x.who].active => user'[x.who].active
      PROVE  TokensTidy'
  <2>1. \A t \in Tokens : token'[t].status = "live" =>
          /\ Live(t)
          /\ token'[t].owner = token[t].owner /\ token'[t].login = token[t].login
          /\ token'[t].current = token[t].current
          /\ token[t].owner \in Users
          /\ token' = token \/ token[t].owner # x.who
    BY <1>2, <1>4, AllRevoked DEF Live, Issued
  <2> QED BY <1>4, <2>1, FewerTidy
<1>5. CASE Logout(s)
  <2>1. x.token \in Tokens /\ token' = Spent(x.token) /\ UNCHANGED <<user, assigned>>
    BY <1>1, <1>5 DEF Logout, Checked
  <2>2. \A t \in Tokens : token'[t].status = "live" => token'[t] = token[t] /\ Live(t)
    BY <2>1, OneSpent DEF Live
  <2>3. TokensTidy'
    BY <2>1, <2>2, FewerTidy
  <2> QED BY <2>1, <2>3 DEF StaffTidy, Officer, ActiveAdmins
<1>6. CASE ChangePassword(s) \/ Remove(s) \/ RollBack(s)
  <2>1. /\ token' = token \/ token' = RevokedAll(x.who)
        /\ UNCHANGED user /\ assigned' \subseteq assigned
    BY <1>1, <1>6 DEF ChangePassword, Remove, RollBack
  <2>2. TokensTidy'
    BY <1>4, <2>1
  <2> QED BY <2>1, <2>2 DEF StaffTidy, Officer, ActiveAdmins
<1>7. CASE Activate(s)
  <2>1. /\ UNCHANGED <<token, assigned>>
        /\ user' = user \/ user' = [user EXCEPT ![x.who].active = TRUE]
    BY <1>1, <1>7 DEF Activate
  <2>2. \A v \in Users : /\ v # x.who => user'[v] = user[v]
                         /\ user'[v].role = user[v].role
                         /\ user[v].active => user'[v].active
    BY <1>2, <2>1 DEF User
  <2>3. TokensTidy'
    BY <1>2, <1>4, <2>1, <2>2
  <2> QED BY <2>1, <2>2, <2>3 DEF StaffTidy, Officer, ActiveAdmins
<1>8. CASE Deactivate(s)
  <2>1. /\ token' = RevokedAll(x.who) /\ UNCHANGED assigned
        /\ user' = user \/ user' = [user EXCEPT ![x.who].active = FALSE]
        /\ MayDeactivate(x.who)
    BY <1>1, <1>8 DEF Deactivate, Checked
  <2>2. \A v \in Users : /\ v # x.who => user'[v] = user[v]
                         /\ user'[v].role = user[v].role
    BY <1>2, <2>1 DEF User
  <2>3. ActiveAdmins \ {x.who} \subseteq ActiveAdmins'
    BY <2>2 DEF ActiveAdmins
  <2>4. TokensTidy'
    <3>1. \A t \in Tokens : token'[t].status = "live" =>
            /\ Live(t)
            /\ token'[t].owner = token[t].owner /\ token'[t].login = token[t].login
            /\ token'[t].current = token[t].current
            /\ token[t].owner \in Users /\ token[t].owner # x.who
      BY <1>2, <2>1, AllRevoked DEF Live, Issued
    <3> QED BY <2>2, <3>1, FewerTidy
  <2>5. StaffTidy'
    BY <1>2, <2>1, <2>2, <2>3, AnotherAdmin DEF StaffTidy, Officer
  <2> QED BY <2>4, <2>5
<1>9. CASE Promote(s) \/ Demote(s)
  <2>1. \/ /\ user' = [user EXCEPT ![x.who].role = "area_officer"]
           /\ user[x.who].role = "civilian" /\ UNCHANGED <<assigned, token>>
        \/ /\ user' = [user EXCEPT ![x.who].role = "civilian"]
           /\ user[x.who].role = "area_officer"
           /\ assigned' = Unassigned(x.who) /\ token' = RevokedAll(x.who)
    BY <1>1, <1>9 DEF Promote, Demote, Checked, Officer
  <2>2. \A v \in Users : /\ v # x.who => user'[v] = user[v]
                         /\ user'[v].active = user[v].active
    BY <1>2, <2>1 DEF User
  <2>3. user[x.who].role # "super_admin" /\ user'[x.who].role # "super_admin"
    BY <1>2, <2>1 DEF User
  <2>4. ActiveAdmins' = ActiveAdmins
    BY <2>2, <2>3 DEF ActiveAdmins
  <2>5. \A p \in assigned' : Officer(p[1])'
    BY <1>2, <2>1, <2>2 DEF StaffTidy, Officer, Unassigned, User
  <2>6. TokensTidy'
    BY <1>2, <1>4, <2>1, <2>2
  <2> QED BY <2>4, <2>5, <2>6 DEF StaffTidy
<1>10. CASE Assign(s)
  <2>1. /\ UNCHANGED <<user, token>> /\ Officer(x.who)
        /\ assigned' = assigned \cup {<<x.who, x.area>>}
    BY <1>1, <1>10 DEF Assign, Checked
  <2>2. TokensTidy'
    BY <1>4, <2>1
  <2> QED BY <2>1, <2>2 DEF StaffTidy, Officer, ActiveAdmins
<1> QED BY <1>3, <1>5, <1>6, <1>7, <1>8, <1>9, <1>10 DEF Commit

LEMMA CommitSerial ==
  ASSUME AccountsBase, SerialInv, NEW s \in Sessions, Commit(s)
  PROVE  SerialInv'
<1>1. /\ session[s].op # "idle" /\ UNCHANGED serial
      /\ \A r \in Sessions : session'[r].op # "idle" =>
           r # s /\ session'[r].op = session[r].op
  BY CommitEnds
<1>2. ASSUME serial
      PROVE  TokensTidy' /\ StaffTidy' /\ Alone'
  <2>1. TokensTidy /\ StaffTidy /\ Checked(session[s])
    BY <1>1, <1>2 DEF SerialInv, Alone
  <2>2. \A r \in Sessions : session'[r].op = "idle"
    BY <1>1, <1>2 DEF SerialInv, Alone
  <2>3. Alone'
    BY <2>2 DEF Alone
  <2> QED BY <2>1, <2>3, CommitTidy
<1> QED BY <1>1, <1>2 DEF SerialInv

-----------------------------------------------------------------------------
(* The invariant of the whole                                              *)

Inv == NumberingInv /\ AccountsBase /\ SerialInv

LEMMA InitInv ==
  ASSUME Init
  PROVE  Inv
<1> USE AccountsAssumption DEF Init
<1>1. NumberingInv
  BY DEF NumberingInit, NumberingInv, NumberingTypeOK, Creator, NoCreator
<1>2. \A s \in Sessions : session[s] \in Session /\ session[s].op = "idle"
  BY DEF AccountsInit, Idle, Session, Operation
<1>3. \A t \in Tokens : token[t] \in Token /\ token[t].status = "none"
  BY DEF AccountsInit, Token, NoToken
<1>4. \A u \in Users : /\ user[u] \in User
                       /\ user[u].role = "none" => ~ user[u].active
  BY DEF AccountsInit, User, Role
<1>5. AccountsTypeOK
  BY <1>2, <1>3, <1>4 DEF AccountsInit, AccountsTypeOK
<1>6. AccountsBase
  BY <1>2, <1>3, <1>4, <1>5 DEF AccountsBase, Loaded, Issued
<1>7. Founders \subseteq ActiveAdmins
  BY DEF AccountsInit, ActiveAdmins
<1>8. StaffTidy
  BY <1>7 DEF AccountsInit, StaffTidy
<1>9. TokensTidy /\ Alone
  BY <1>2, <1>3 DEF TokensTidy, Alone, Live
<1> QED BY <1>1, <1>6, <1>8, <1>9 DEF Inv, SerialInv

LEMMA AccountsUnchanged ==
  ASSUME AccountsBase, SerialInv, UNCHANGED accountVars
  PROVE  AccountsBase' /\ SerialInv'
<1> USE DEF accountVars
<1>1. AccountsBase'
  BY DEF AccountsBase, AccountsTypeOK, Loaded, Issued
<1>2. TokensTidy => TokensTidy'
  BY DEF TokensTidy, Live
<1>3. StaffTidy => StaffTidy'
  BY DEF StaffTidy, Officer, ActiveAdmins
<1>4. Alone => Alone'
  BY DEF Alone, Checked, Live, Officer, MayDeactivate, ActiveAdmins
<1> QED BY <1>1, <1>2, <1>3, <1>4 DEF SerialInv

LEMMA NextInv ==
  ASSUME Inv, [Next]_vars
  PROVE  Inv'
<1> USE DEF Inv
<1>1. CASE SignUp
  BY <1>1, NewAccountBase, NewAccountSerial, NumberingUnchanged DEF SignUp
<1>2. ASSUME NEW s \in Sessions, Administer(s)
      PROVE  Inv'
  <2>1. CASE Load(s)
    BY <1>2, <2>1, LoadChecks, LoadBase, LoadSerial, NumberingUnchanged DEF Administer
  <2>2. CASE Commit(s)
    BY <1>2, <2>2, CommitBase, CommitSerial, NumberingUnchanged DEF Administer
  <2> QED BY <1>2, <2>1, <2>2 DEF Administer, AccountsStep
<1>3. ASSUME NEW s \in Sessions, CreateCase(s)
      PROVE  Inv'
  BY <1>3, AdministrationAssumption, NumberingStepInv, AccountsUnchanged DEF CreateCase
<1>4. CASE UNCHANGED vars
  BY <1>4, NumberingUnchanged, AccountsUnchanged DEF vars, numberingVars, accountVars
<1> QED BY <1>1, <1>2, <1>3, <1>4 DEF Next

LEMMA InvAlways == Spec => []Inv
BY InitInv, NextInv, PTL DEF Spec

-----------------------------------------------------------------------------
(* Rights stay revoked, however requests overlap                           *)

\* What a step of the accounts does to a user who is shut out or off duty.
StayRevoked(u) ==
  /\ ShutOut(u) => ShutOut(u)' \/ user'[u].active
  /\ OffDuty(u) => OffDuty(u)' \/ user'[u].role = "area_officer"

LEMMA NewAccountStaysRevoked ==
  ASSUME AccountsBase, NewAccount, NEW u \in Users
  PROVE  StayRevoked(u)
<1>1. PICK v \in Users : RegisterUser(v) \/ CreateOfficer(v)
  BY DEF NewAccount
<1>2. /\ UNCHANGED <<assigned, token, session>>
      /\ u # v => user'[u] = user[u]
      /\ u = v => user'[u].active /\ user'[u].role \in {"civilian", "area_officer"}
  BY <1>1 DEF RegisterUser, CreateOfficer, AccountsBase, AccountsTypeOK
<1> QED BY <1>2 DEF StayRevoked, ShutOut, OffDuty, Officer, InFlight, Live

LEMMA LoadStaysRevoked ==
  ASSUME AccountsBase, NEW s \in Sessions, NEW x \in Session,
         Begin(s, x), Checked(x), NEW u \in Users
  PROVE  StayRevoked(u)
<1>1. /\ session' = [session EXCEPT ![s] = x]
      /\ UNCHANGED <<user, assigned, token>>
  BY DEF Begin
<1>2. ASSUME ShutOut(u)
      PROVE  ShutOut(u)'
  <2>1. ~ InFlight({"login", "rotate"}, u)'
    BY <1>1, <1>2 DEF ShutOut, InFlight, Checked, AccountsBase, AccountsTypeOK
  <2> QED BY <1>1, <1>2, <2>1 DEF ShutOut, Live
<1>3. ASSUME OffDuty(u)
      PROVE  OffDuty(u)'
  <2>1. ~ InFlight({"assign"}, u)'
    BY <1>1, <1>3 DEF OffDuty, InFlight, Checked, Officer, AccountsBase, AccountsTypeOK
  <2> QED BY <1>1, <1>3, <2>1 DEF OffDuty, Officer
<1> QED BY <1>2, <1>3 DEF StayRevoked

\* A token that is live after a commit was live before it, or is issued to the
\* user of a login or a rotation.
LEMMA CommitTokens ==
  ASSUME AccountsBase, NEW s \in Sessions, Commit(s), NEW t \in Tokens,
         token'[t].status = "live"
  PROVE  \/ Live(t) /\ token'[t].owner = token[t].owner
         \/ session[s].op \in {"login", "rotate"} /\ token'[t].owner = session[s].who
<1> USE DEF AccountsBase, AccountsTypeOK
<1> DEFINE x == session[s]
<1>1. CASE IssueToken(s)
  <2> DEFINE rest == IF x.op = "rotate" THEN Spent(x.token) ELSE token
  <2>1. PICK n \in Tokens :
          token' = [rest EXCEPT ![n] =
             [status |-> "live", owner |-> x.who,
              login |-> IF x.op = "login" THEN n ELSE token[x.token].login,
              current |-> x.current]]
    BY <1>1 DEF IssueToken
  <2>2. x.op \in {"login", "rotate"} /\ (x.op = "rotate" => x.token \in Tokens)
    BY <1>1 DEF IssueToken, Loaded
  <2>3. /\ rest \in [Tokens -> Token]
        /\ rest[t].owner = token[t].owner /\ (rest[t].status = "live" => Live(t))
    BY <2>2, OneSpent DEF Live
  <2> HIDE DEF rest
  <2>4. CASE t = n
    BY <2>1, <2>2, <2>3, <2>4
  <2>5. CASE t # n
    BY <2>1, <2>3, <2>5
  <2> QED BY <2>4, <2>5
<1>2. CASE Logout(s)
  <2>1. x.token \in Tokens /\ token' = Spent(x.token)
    BY <1>2 DEF Logout, Loaded
  <2> QED BY <2>1, OneSpent DEF Live
<1>3. CASE ChangePassword(s) \/ Deactivate(s) \/ Demote(s)
  <2>1. x.who \in Users /\ token' = RevokedAll(x.who)
    BY <1>3 DEF ChangePassword, Deactivate, Demote, Loaded
  <2> QED BY <2>1, AllRevoked DEF Live
<1>4. CASE Activate(s) \/ Promote(s) \/ Assign(s) \/ Remove(s) \/ RollBack(s)
  BY <1>4 DEF Activate, Promote, Assign, Remove, RollBack, Live
<1> QED BY <1>1, <1>2, <1>3, <1>4 DEF Commit

LEMMA CommitStaysRevoked ==
  ASSUME AccountsBase, NEW s \in Sessions, Commit(s), NEW u \in Users
  PROVE  StayRevoked(u)
<1> USE DEF AccountsBase, AccountsTypeOK
<1>1. \A r \in Sessions : session'[r].op # "idle" =>
        session'[r].op = session[r].op /\ session'[r].who = session[r].who
  BY CommitEnds
<1>3. ~ InFlight({"login", "rotate"}, u) => ~ InFlight({"login", "rotate"}, u)'
  BY <1>1 DEF InFlight
<1>4. ~ InFlight({"assign"}, u) => ~ InFlight({"assign"}, u)'
  BY <1>1 DEF InFlight
<1>5. ASSUME ShutOut(u), ~ user'[u].active
      PROVE  ShutOut(u)'
  <2>1. ASSUME NEW t \in Tokens, token'[t].status = "live"
        PROVE  token'[t].owner # u
    BY <1>5, <2>1, CommitTokens DEF ShutOut, InFlight
  <2> QED BY <1>3, <1>5, <2>1 DEF ShutOut, Live
<1>6. ASSUME OffDuty(u), user'[u].role # "area_officer"
      PROVE  OffDuty(u)'
  <2>1. \A p \in assigned' : p \in assigned \/ (session[s].op = "assign" /\ p[1] = session[s].who)
    <3>1. CASE Assign(s)
      BY <3>1 DEF Assign
    <3>2. CASE Demote(s) \/ Remove(s)
      BY <3>2 DEF Demote, Remove, Unassigned
    <3>3. CASE IssueToken(s) \/ Logout(s) \/ ChangePassword(s) \/ Activate(s)
      BY <3>3 DEF IssueToken, Logout, ChangePassword, Activate
    <3>4. CASE Deactivate(s) \/ Promote(s) \/ RollBack(s)
      BY <3>4 DEF Deactivate, Promote, RollBack
    <3> QED BY <3>1, <3>2, <3>3, <3>4 DEF Commit
  <2>2. \A a \in Areas : <<u, a>> \notin assigned'
    BY <1>6, <2>1 DEF OffDuty, InFlight
  <2> QED BY <1>4, <1>6, <2>2 DEF OffDuty, Officer
<1> QED BY <1>5, <1>6 DEF StayRevoked

LEMMA NextStaysRevoked ==
  ASSUME AccountsBase, [Next]_vars
  PROVE  [\A u \in Users : StayRevoked(u)]_accountVars
<1>1. CASE SignUp
  BY <1>1, NewAccountStaysRevoked DEF SignUp
<1>2. ASSUME NEW s \in Sessions, Administer(s)
      PROVE  \A u \in Users : StayRevoked(u)
  <2>1. CASE Load(s)
    BY <2>1, LoadChecks, LoadStaysRevoked
  <2>2. CASE Commit(s)
    BY <2>2, CommitStaysRevoked
  <2> QED BY <1>2, <2>1, <2>2 DEF Administer, AccountsStep
<1>3. ASSUME NEW s \in Sessions, CreateCase(s)
      PROVE  UNCHANGED accountVars
  BY <1>3 DEF CreateCase
<1>4. CASE UNCHANGED vars
  BY <1>4 DEF vars, accountVars
<1> QED BY <1>1, <1>2, <1>3, <1>4 DEF Next

-----------------------------------------------------------------------------
(* Results                                                                 *)

\* Every request leaves users, assignments, tokens and numbers well formed
\* (users, area_officer_assignments, refresh_tokens, case_sequences).
THEOREM TypesAlways == Spec => []TypeOK
<1>1. Inv => TypeOK
  BY DEF Inv, AccountsBase, NumberingInv, TypeOK
<1> QED BY <1>1, InvAlways, PTL

\* The numbers of the cases of a year have no gap, whichever requests fail
\* and however they overlap (CaseService.create_case).
THEOREM NumbersAlways == Spec => []NumbersConsecutive
<1>1. Inv => NumbersConsecutive
  BY DEF Inv, NumberingInv, NumbersConsecutive
<1> QED BY <1>1, InvAlways, PTL

\* While requests do not overlap, every live refresh token belongs to an
\* active user with an unchanged password and is the only one of its login
\* (AuthService.rotate_refresh_token, update_user_admin, change_password).
THEOREM LiveTokensAlwaysJustified == Spec => []LiveTokensJustified
<1>1. Inv => LiveTokensJustified
  BY DEF Inv, SerialInv, TokensTidy, LiveTokensJustified
<1> QED BY <1>1, InvAlways, PTL

\* While requests do not overlap, only officers have areas and an active
\* super admin is left (OfficerService, UserService.update_user_admin).
THEOREM StaffAlwaysJustified == Spec => []StaffJustified
<1>1. Inv => StaffJustified
  BY DEF Inv, SerialInv, StaffTidy, StaffJustified
<1> QED BY <1>1, InvAlways, PTL

\* However requests overlap: once an inactive user has no open login and no
\* live token, and once a user who is no officer has no open assignment and
\* no area, only an activation or a promotion gives these back.
THEOREM RevokedRightsStay == Spec => RightsStayRevoked
<1>1. Inv => AccountsBase
  BY DEF Inv
<1>2. [][\A u \in Users : StayRevoked(u)]_accountVars => RightsStayRevoked
  BY PTL DEF StayRevoked, RightsStayRevoked
<1> QED BY <1>1, <1>2, InvAlways, NextStaysRevoked, PTL DEF Spec

\* Creating cases does not disturb the accounts, nor these the numbers: each
\* part alone behaves as specified.
THEOREM PartsKept == Spec => AccountsSpec /\ NumberingSpec
<1>1. Init => AccountsInit /\ NumberingInit
  BY DEF Init
<1>2. [Next]_vars =>
        [NewAccount \/ \E s \in Sessions : AccountsStep(s)]_accountVars
  BY DEF Next, vars, accountVars, SignUp, Administer, CreateCase
<1>3. [Next]_vars => [\E c \in Creators : NumberingStep(c)]_numberingVars
  BY AdministrationAssumption
     DEF Next, vars, numberingVars, SignUp, Administer, CreateCase
<1> QED BY <1>1, <1>2, <1>3, PTL DEF Spec, AccountsSpec, NumberingSpec
=============================================================================
