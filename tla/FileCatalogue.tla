--------------------------- MODULE FileCatalogue ----------------------------
(***************************************************************************)
(* What the file service promises about the files a client can download,   *)
(* without calls, stores or failures: a file is published in one step and  *)
(* may be withdrawn in one step, and once withdrawn (or never published by *)
(* then) it cannot be downloaded again.                                    *)
(***************************************************************************)
CONSTANT Files

VARIABLES served, withdrawn

catalogueVars == <<served, withdrawn>>

Init == served = {} /\ withdrawn = {}

Publish(f) ==
  /\ f \notin served \cup withdrawn
  /\ served' = served \cup {f}
  /\ UNCHANGED withdrawn

Withdraw(f) ==
  /\ withdrawn' = withdrawn \cup {f}
  /\ served' = served \ {f}

Next == \E f \in Files : Publish(f) \/ Withdraw(f)

Spec == Init /\ [][Next]_catalogueVars

=============================================================================
