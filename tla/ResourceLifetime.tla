--------------------------- MODULE ResourceLifetime ---------------------------
(***************************************************************************)
(* What reference counting promises, with no count in sight: a resource    *)
(* exists exactly as long as some client holds it or holds something that  *)
(* uses it, directly or through another resource.  Resources are given     *)
(* back in the very step that lets go of them for the last time, whatever  *)
(* the order in which clients let go.                                      *)
(***************************************************************************)
EXTENDS Naturals

CONSTANTS Clients, Resources

VARIABLES
  held,      \* held[r]: the clients that still have to release r
  uses,      \* uses[r]: the resources r was created from
  exists     \* the resources that exist

lifetimeVars == <<held, uses, exists>>

\* A drawable uses a VAO that uses a buffer: two steps reach everything.
Needed(h, u) ==
  LET roots  == {r \in Resources : h[r] # {}}
      direct == roots \cup UNION {u[r] : r \in roots}
  IN direct \cup UNION {u[r] : r \in direct}

Init ==
  /\ held   = [r \in Resources |-> {}]
  /\ uses   = [r \in Resources |-> {}]
  /\ exists = {}

Create(c, r) ==
  /\ r \notin exists
  /\ \E parts \in SUBSET exists : uses' = [uses EXCEPT ![r] = parts]
  /\ held'   = [held EXCEPT ![r] = {c}]
  /\ exists' = exists \cup {r}

Reference(c, r) ==
  /\ r \in exists
  /\ held' = [held EXCEPT ![r] = @ \cup {c}]
  /\ UNCHANGED <<uses, exists>>

Release(c, r) ==
  /\ c \in held[r]
  /\ held'   = [held EXCEPT ![r] = @ \ {c}]
  /\ exists' = Needed(held', uses)
  /\ uses'   = [x \in Resources |-> IF x \in exists' THEN uses[x] ELSE {}]

Next ==
  \E c \in Clients, r \in Resources :
    \/ Create(c, r)
    \/ Reference(c, r)
    \/ Release(c, r)

Spec == Init /\ [][Next]_lifetimeVars
==============================================================================
