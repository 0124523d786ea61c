--------------------------- MODULE SessionLedger ----------------------------
(***************************************************************************)
(* What the sessions of an account come down to, without handlers and      *)
(* database calls: a ledger of refresh tokens.  A session begins with a    *)
(* login and ends Life after it.  A token that is valid lets its bearer in *)
(* once at a time, and who was let in may continue that token's session    *)
(* with one new token, valid until the session ends, although the old one  *)
(* may have been revoked meanwhile.  A revoked token lets nobody in again. *)
(***************************************************************************)
EXTENDS Naturals

CONSTANTS Tokens, Bearers, Life

VARIABLES
  now,
  ledger,   \* ledger[t]: what is recorded of token t
  holds     \* holds[b]: the token that let bearer b in, if any

ledgerVars == <<now, ledger, holds>>

Init ==
  /\ now = 0
  /\ \A t \in Tokens : ledger[t].state = "none"
  /\ holds = [b \in Bearers |-> {}]

Tick == now' = now + 1 /\ UNCHANGED <<ledger, holds>>

-----------------------------------------------------------------------------
(* Bearers come and go. *)

Present(b, t) ==
  /\ holds[b] = {} /\ ledger[t].state = "valid" /\ now < ledger[t].expires
  /\ holds' = [holds EXCEPT ![b] = {t}]

Leave(b) == holds' = [holds EXCEPT ![b] = {}]

Visit ==
  /\ holds' # holds /\ UNCHANGED <<now, ledger>>
  /\ \E b \in Bearers : Leave(b) \/ \E t \in Tokens : Present(b, t)

-----------------------------------------------------------------------------
(* What is written in the ledger. *)

\* Token n, not recorded before and not from the future, is recorded as e.
Record(n, e) ==
  /\ ledger[n].state = "none" /\ n.at <= now
  /\ ledger' = [ledger EXCEPT ![n] = e]

Login(b, n) ==
  /\ Record(n, [state |-> "valid", expires |-> n.at + Life, root |-> n, path |-> {b}])
  /\ UNCHANGED holds

Renew(b, n) ==
  /\ \E t \in holds[b] : Record(n, [ledger[t] EXCEPT !.state = "valid", !.path = @ \cup {b}])
  /\ Leave(b)

Valid == {t \in Tokens : ledger[t].state = "valid"}

\* One token is revoked, or all are.
Revoke(T) ==
  /\ ledger' = [t \in Tokens |-> IF t \in T THEN [ledger[t] EXCEPT !.state = "revoked"] ELSE ledger[t]]
  /\ UNCHANGED holds

Write ==
  /\ ledger' # ledger /\ UNCHANGED now
  /\ \/ \E b \in Bearers, n \in Tokens : Login(b, n) \/ Renew(b, n)
     \/ \E T \in {Valid} \cup {{t} : t \in Valid} : Revoke(T)

-----------------------------------------------------------------------------

Next == Tick \/ Visit \/ Write

Spec == Init /\ [][Next]_ledgerVars

=============================================================================
