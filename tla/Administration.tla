--------------------------- MODULE Administration ---------------------------
(***************************************************************************)
(* Accounts and the creation of cases together: a case is created by a     *)
(* request of a user who is an active civilian when the request begins,    *)
(* and who may be promoted or deactivated before it ends. A request is     *)
(* either about accounts or creates a case.                                *)
(***************************************************************************)
EXTENDS Accounts, CaseNumbering

ASSUME AdministrationAssumption == Creators = Sessions

vars == <<user, assigned, token, session, serial, last, numbers, creator>>

TypeOK == AccountsTypeOK /\ NumberingTypeOK

Init == AccountsInit /\ NumberingInit

\* require_role(UserRole.CIVILIAN) for some user.
Civilian == \E u \in Users : user[u].role = "civilian" /\ user[u].active

Creating(s) == creator[s].at \in {"found_none", "counted"}

CreateCase(s) ==
  /\ session[s].op = "idle"
  /\ Creating(s) \/ Civilian
  /\ NumberingStep(s)
  /\ UNCHANGED accountVars

Administer(s) ==
  /\ ~ Creating(s)
  /\ AccountsStep(s)
  /\ UNCHANGED numberingVars

SignUp == NewAccount /\ UNCHANGED numberingVars

Next ==
  \/ SignUp
  \/ \E s \in Sessions : Administer(s) \/ CreateCase(s)

Spec == Init /\ [][Next]_vars
=============================================================================
