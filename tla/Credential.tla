----------------------------- MODULE Credential -----------------------------
(***************************************************************************)
(* What the connection of an Instagram account promises to the tenants,    *)
(* without requests, transactions or locks: the account belongs to the     *)
(* first workspace that connects it and never moves; it has one credential *)
(* or none; a credential comes from an OAuth round trip that this          *)
(* workspace began, replaces the one before, and is never used again after *)
(* it was replaced or revoked.  What is not promised shows as well: a      *)
(* round trip may connect twice, and a credential may be stored right      *)
(* after a disconnection.                                                  *)
(***************************************************************************)
CONSTANTS
  Workspaces,   (* tenants                                                     *)
  Attempts,     (* state values of OAuth round trips                           *)
  Ids,          (* token rows                                                  *)
  NoWorkspace   (* not a workspace                                             *)

VARIABLES
  begun,        (* the workspace that began each round trip                    *)
  tenant,       (* the workspace that the account belongs to                   *)
  live,         (* the credential of the account: a set of one token, or none  *)
  retired       (* the tokens that were revoked                                *)

vars == <<begun, tenant, live, retired>>

Init ==
  /\ begun = [s \in Attempts |-> NoWorkspace]
  /\ tenant = NoWorkspace
  /\ live = {}
  /\ retired = {}

\* begin_connect
Begin(w, s) ==
  /\ begun[s] = NoWorkspace
  /\ begun' = [begun EXCEPT ![s] = w]
  /\ UNCHANGED <<tenant, live, retired>>

\* A round trip of workspace w brings token t.
Connect(w, s, t) ==
  /\ begun[s] = w
  /\ tenant \in {NoWorkspace, w}
  /\ \A c \in live \cup retired : c.id # t
  /\ tenant' = w
  /\ live' = {[id |-> t, ws |-> w, from |-> s]}
  /\ retired' = retired \cup live
  /\ UNCHANGED begun

\* disconnect
Disconnect ==
  /\ live' = {}
  /\ retired' = retired \cup live
  /\ UNCHANGED <<begun, tenant>>

Next ==
  \/ \E w \in Workspaces, s \in Attempts : Begin(w, s)
  \/ \E w \in Workspaces, s \in Attempts, t \in Ids : Connect(w, s, t)
  \/ Disconnect

Spec == Init /\ [][Next]_vars

=============================================================================
