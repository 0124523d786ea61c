----------------------------- MODULE MCSessions -----------------------------
(* Instances of Sessions for TLC. *)
EXTENDS Sessions, FiniteSets, TLC

TokenOps   == {"register", "login", "refresh", "logout", "logoutall"}
AccountOps == {"login", "refresh", "logoutall", "password", "profile", "createuser", "admin", "deleteuser"}
RoleOps    == {"login", "refresh", "profile", "admin"}

\* The calls are about sessions, over the whole clock; or about the account too,
\* in its first seconds; or about the role of an active
\* account, of whose calls one is a login and at most two write its row.
Workload ==
  LET ops     == {call[c].op : c \in Calls} \ {"none"}
      saves   == {c \in Calls : call[c].op \in {"profile", "admin"}}
      saved   == {user} \cup {call[c].copy : c \in {d \in Calls : call[d].op = "admin"}}
      logins  == {c \in Calls : call[c].op = "login"}
      oneRole == \A u \in saved : u.role = "viewer"
      active  == \A u \in saved : u.status = "active"
  IN  \/ ops \subseteq TokenOps /\ oneRole
      \/ ops \subseteq AccountOps /\ oneRole /\ now <= 1
      \/ ops \subseteq RoleOps /\ active /\ now <= 2
           /\ Cardinality(logins) <= 1 /\ Cardinality(saves) <= 2

CallSymmetry == Permutations(Calls)
=============================================================================
