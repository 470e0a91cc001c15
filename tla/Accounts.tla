------------------------------ MODULE Accounts ------------------------------
(***************************************************************************)
(* Users, their roles and activation, the areas of officers, and refresh   *)
(* tokens (AuthService, UserService, OfficerService). A request loads what *)
(* it checks in its own session and writes it back by its commit; there    *)
(* are no row locks, so two requests may check the same rows before either *)
(* commits. Bulk statements (revoking all tokens of a user, deleting all   *)
(* assignments) see what is committed when they run.                       *)
(*                                                                         *)
(* Areas are always active here: update_area and deactivate_area refer to  *)
(* Case, which their module does not import, and raise before they write.  *)
(***************************************************************************)
EXTENDS Naturals, FiniteSets

CONSTANTS Users,     \* email addresses
          Founders,  \* users who are super admins from the start
          Clients,   \* users who log in and change passwords (a bound)
          Areas,
          Tokens,    \* bound on the refresh tokens
          Sessions,  \* concurrent requests
          None

ASSUME AccountsAssumption ==
  /\ IsFiniteSet(Users)
  /\ Founders \subseteq Users
  /\ None \notin Users \cup Tokens \cup Areas

VARIABLES user,      \* users
          assigned,  \* area_officer_assignments: unique by user and area
          token,     \* refresh_tokens
          session,   \* what each request has loaded
          serial     \* history: no request has begun while another was open

accountVars == <<user, assigned, token, session, serial>>

----------------------------------------------------------------------------

Role == {"none", "civilian", "area_officer", "super_admin"}
User == [role : Role, active : BOOLEAN]

\* login: the login it descends from, named by that login's token.
\* current: a valid token's owner still has the password of that login.
Token == [status : {"none", "live", "revoked"}, owner : Users \cup {None},
          login : Tokens \cup {None}, current : BOOLEAN]
NoToken == [status |-> "none", owner |-> None, login |-> None,
            current |-> FALSE]

Operation == {"idle", "login", "rotate", "logout", "change_password",
              "activate", "deactivate", "promote", "demote", "assign",
              "remove"}

\* who: the user the request is about. active: as loaded by a request that
\* writes it. current: as in Token, of the token that will be issued.
Session == [op : Operation, who : Users \cup {None}, active : BOOLEAN,
            token : Tokens \cup {None}, area : Areas \cup {None},
            current : BOOLEAN]
Idle == [op |-> "idle", who |-> None, active |-> FALSE, token |-> None,
         area |-> None, current |-> FALSE]

AccountsTypeOK ==
  /\ user \in [Users -> User]
  /\ assigned \subseteq Users \X Areas
  /\ token \in [Tokens -> Token]
  /\ session \in [Sessions -> Session]
  /\ serial \in BOOLEAN

AccountsInit ==
  /\ user = [u \in Users |->
               IF u \in Founders THEN [role |-> "super_admin", active |-> TRUE]
                                 ELSE [role |-> "none", active |-> FALSE]]
  /\ assigned = {}
  /\ token = [t \in Tokens |-> NoToken]
  /\ session = [s \in Sessions |-> Idle]
  /\ serial = TRUE

----------------------------------------------------------------------------

Officer(u) == user[u].role = "area_officer"
ActiveAdmins ==
  {u \in Users : user[u].role = "super_admin" /\ user[u].active}
Live(t) == token[t].status = "live"

\* (Broken: the last one may go.)
MayDeactivateAny(u) == TRUE

\* The count of update_user_admin leaves a super admin.
MayDeactivate(u) ==
  u \in ActiveAdmins => Cardinality(ActiveAdmins) > 1

\* (Broken: an inactive user may log in.)
MayLoginAny(u) == user[u].role # "none"

\* What authenticate_user asks, beside the password.
MayLogin(u) == user[u].active

\* What rotate_refresh_token asks of the token and its owner.
MayRefresh(t) == Live(t) /\ user[token[t].owner].active

\* (Broken: the token stays valid.)
NotSpent(t) == token

\* (Broken: the row is deleted, and its owner with it.)
Forgotten(t) == [token EXCEPT ![t] = None]

\* The tokens after t was exchanged or returned.
Spent(t) == [token EXCEPT ![t].status = "revoked", ![t].current = FALSE]

\* All live tokens of u are revoked by one statement.
RevokedAll(u) ==
  [t \in Tokens |-> IF Live(t) /\ token[t].owner = u
                    THEN [token[t] EXCEPT !.status = "revoked", !.current = FALSE]
                    ELSE token[t]]

\* assigned after all assignments of u are deleted.
Unassigned(u) == {p \in assigned : p[1] # u}

\* Only t is still unused of the tokens that will be issued.
Unused(t) == token[t].status = "none"

\* Session s begins with what it has loaded.
Begin(s, loaded) ==
  /\ session[s].op = "idle"
  /\ session' = [session EXCEPT ![s] = loaded]
  /\ serial' = (serial /\ \A r \in Sessions : session[r].op = "idle")
  /\ UNCHANGED <<user, assigned, token>>

End(s) == session' = [session EXCEPT ![s] = Idle]

About(op, u) == [Idle EXCEPT !.op = op, !.who = u]

----------------------------------------------------------------------------
(* New accounts: email is unique.                                          *)

RegisterUser(u) ==
  /\ user[u].role = "none"
  /\ user' = [user EXCEPT ![u] = [role |-> "civilian", active |-> TRUE]]
  /\ UNCHANGED <<assigned, token, session, serial>>

\* Asked for by a super admin.
CreateOfficer(u) ==
  /\ ActiveAdmins # {}
  /\ user[u].role = "none"
  /\ user' = [user EXCEPT ![u] = [role |-> "area_officer", active |-> TRUE]]
  /\ UNCHANGED <<assigned, token, session, serial>>

----------------------------------------------------------------------------
(* A request loads and checks.                                             *)

LoadLogin(s, u) ==
  /\ u \in Clients
  /\ MayLogin(u)
  /\ Begin(s, [About("login", u) EXCEPT !.current = TRUE])

LoadRotate(s, t) ==
  /\ MayRefresh(t)
  /\ Begin(s, [About("rotate", token[t].owner) EXCEPT
                 !.token = t, !.current = token[t].current])

\* Tokens nobody presents are not interesting: t is live as loaded.
LoadLogout(s, t) ==
  /\ Live(t)
  /\ Begin(s, [About("logout", token[t].owner) EXCEPT !.token = t])

LoadChangePassword(s, u) ==
  /\ u \in Clients
  /\ user[u].active
  /\ Begin(s, About("change_password", u))

\* The remaining requests come from an active super admin.
LoadActivate(s, u) ==
  /\ ActiveAdmins # {}
  /\ user[u].role # "none"
  /\ Begin(s, [About("activate", u) EXCEPT !.active = user[u].active])

LoadDeactivate(s, u) ==
  /\ ActiveAdmins # {}
  /\ user[u].role # "none"
  /\ MayDeactivate(u)
  /\ Begin(s, [About("deactivate", u) EXCEPT !.active = user[u].active])

LoadPromote(s, u) ==
  /\ ActiveAdmins # {}
  /\ user[u].role = "civilian"
  /\ user[u].active
  /\ Begin(s, About("promote", u))

LoadDemote(s, u) ==
  /\ ActiveAdmins # {}
  /\ Officer(u)
  /\ Begin(s, About("demote", u))

LoadAssign(s, u, a) ==
  /\ ActiveAdmins # {}
  /\ Officer(u)
  /\ user[u].active
  /\ <<u, a>> \notin assigned
  /\ Begin(s, [About("assign", u) EXCEPT !.area = a])

LoadRemove(s, u, a) ==
  /\ ActiveAdmins # {}
  /\ <<u, a>> \in assigned
  /\ Begin(s, [About("remove", u) EXCEPT !.area = a])

----------------------------------------------------------------------------
(* It writes and commits.                                                  *)

\* A login and a rotation differ in what becomes of an older token.
IssueToken(s) ==
  /\ session[s].op \in {"login", "rotate"}
  /\ \E t \in Tokens :
       /\ Unused(t)
       /\ LET rest == IF session[s].op = "rotate" THEN Spent(session[s].token)
                                                  ELSE token
          IN token' = [rest EXCEPT ![t] =
               [status |-> "live", owner |-> session[s].who,
                login |-> IF session[s].op = "login" THEN t
                          ELSE token[session[s].token].login,
                current |-> session[s].current]]
  /\ End(s)
  /\ UNCHANGED <<user, assigned, serial>>

Logout(s) ==
  /\ session[s].op = "logout"
  /\ token' = Spent(session[s].token)
  /\ End(s)
  /\ UNCHANGED <<user, assigned, serial>>

\* A token that is being issued meanwhile was asked for with the old password.
ChangePassword(s) ==
  /\ session[s].op = "change_password"
  /\ LET u == session[s].who IN
       /\ token' = RevokedAll(u)
       /\ session' = [r \in Sessions |->
                        IF r = s THEN Idle
                        ELSE IF session[r].who = u
                             THEN [session[r] EXCEPT !.current = FALSE]
                             ELSE session[r]]
  /\ UNCHANGED <<user, assigned, serial>>

\* Unless the loaded value differs, is_active is not written.
Activate(s) ==
  /\ session[s].op = "activate"
  /\ user' = IF session[s].active THEN user
             ELSE [user EXCEPT ![session[s].who].active = TRUE]
  /\ End(s)
  /\ UNCHANGED <<assigned, token, serial>>

Deactivate(s) ==
  /\ session[s].op = "deactivate"
  /\ user' = IF session[s].active
             THEN [user EXCEPT ![session[s].who].active = FALSE]
             ELSE user
  /\ token' = RevokedAll(session[s].who)
  /\ End(s)
  /\ UNCHANGED <<assigned, serial>>

Promote(s) ==
  /\ session[s].op = "promote"
  /\ user' = [user EXCEPT ![session[s].who].role = "area_officer"]
  /\ End(s)
  /\ UNCHANGED <<assigned, token, serial>>

Demote(s) ==
  /\ session[s].op = "demote"
  /\ user' = [user EXCEPT ![session[s].who].role = "civilian"]
  /\ assigned' = Unassigned(session[s].who)
  /\ token' = RevokedAll(session[s].who)
  /\ End(s)
  /\ UNCHANGED serial

\* A duplicate violates the unique constraint and changes nothing.
Assign(s) ==
  /\ session[s].op = "assign"
  /\ assigned' = assigned \cup {<<session[s].who, session[s].area>>}
  /\ End(s)
  /\ UNCHANGED <<user, token, serial>>

Remove(s) ==
  /\ session[s].op = "remove"
  /\ assigned' = assigned \ {<<session[s].who, session[s].area>>}
  /\ End(s)
  /\ UNCHANGED <<user, token, serial>>

\* get_db closes the session of a request that fails before its commit.
RollBack(s) ==
  /\ session[s].op # "idle"
  /\ End(s)
  /\ UNCHANGED <<user, assigned, token, serial>>

Load(s) ==
  \/ \E u \in Users :
       \/ LoadLogin(s, u) \/ LoadChangePassword(s, u) \/ LoadActivate(s, u)
       \/ LoadDeactivate(s, u) \/ LoadPromote(s, u) \/ LoadDemote(s, u)
  \/ \E t \in Tokens : LoadRotate(s, t) \/ LoadLogout(s, t)
  \/ \E u \in Users, a \in Areas : LoadAssign(s, u, a) \/ LoadRemove(s, u, a)

Commit(s) ==
  \/ IssueToken(s) \/ Logout(s) \/ ChangePassword(s)
  \/ Activate(s) \/ Deactivate(s)
  \/ Promote(s) \/ Demote(s) \/ Assign(s) \/ Remove(s)
  \/ RollBack(s)

AccountsStep(s) == Load(s) \/ Commit(s)

NewAccount == \E u \in Users : RegisterUser(u) \/ CreateOfficer(u)

AccountsSpec ==
  /\ AccountsInit
  /\ [][NewAccount \/ \E s \in Sessions : AccountsStep(s)]_accountVars

----------------------------------------------------------------------------
(* Properties.                                                             *)

\* While requests do not overlap, a refresh token that is valid belongs to
\* an active user, was obtained with the password the user has now, and is
\* the only valid one that descends from its login.
LiveTokensJustified ==
  serial =>
    /\ \A t \in Tokens : Live(t) =>
         user[token[t].owner].active /\ token[t].current
    /\ \A t, o \in Tokens :
         Live(t) /\ Live(o) /\ token[t].login = token[o].login => t = o

\* While requests do not overlap, only officers have areas, and somebody is
\* left who can administer the system.
StaffJustified ==
  serial =>
    /\ \A p \in assigned : Officer(p[1])
    /\ Founders # {} => ActiveAdmins # {}

\* user_service.py: "Protect against deactivating the last active Super Admin".
\* Two overlapping deactivations each still count the other one's admin.
LastAdminStays == Founders # {} => ActiveAdmins # {}

InFlight(ops, u) ==
  \E s \in Sessions : session[s].op \in ops /\ session[s].who = u

ShutOut(u) ==
  /\ ~ user[u].active
  /\ ~ InFlight({"login", "rotate"}, u)
  /\ \A t \in Tokens : Live(t) => token[t].owner # u

OffDuty(u) ==
  /\ ~ Officer(u)
  /\ ~ InFlight({"assign"}, u)
  /\ \A a \in Areas : <<u, a>> \notin assigned

\* However requests overlap: once the requests of an inactive user have
\* ended and the tokens are revoked, only an activation lets that user in
\* again; and who is not an officer gets no area before a promotion.
RightsStayRevoked ==
  [][\A u \in Users :
       /\ ShutOut(u) => ShutOut(u)' \/ user'[u].active
       /\ OffDuty(u) => OffDuty(u)' \/ user'[u].role = "area_officer"
    ]_accountVars
=============================================================================
