----------------------------- MODULE MCService -----------------------------
(* Instance of Service: a user with one key that may be moved between two  *)
(* groups, an administrator, one job and one worker.                       *)
EXTENDS Service, TLC

CONSTANTS g1, g2, k1

MCPrincipal  == {[user |-> "user", group |-> g, key |-> k1] : g \in {g1, g2}}

(* What keeps a user from a group.                                         *)
Amiss ==
  Cardinality({u \in User : users[u].status # "active"})
    + Cardinality({g \in Group : groups[g] # Grants!Missing /\ groups[g].deleted})
    + Cardinality({<<"user", g1>>} \ allowed)
    + Cardinality({k \in Key : apiKeys[k] # Grants!Missing /\ apiKeys[k].expired})
    + Cardinality(Group \ ready)

(* Bounds: one thing is amiss at a time, whichever it is.  One group is    *)
(* exclusive, the other open to everyone; keys and groups are deleted      *)
(* rather than disabled; nobody is kept to the groups they are members of. *)
(* MCGrants has all of it, without jobs.  A job that has ended is neither  *)
(* admitted nor dispatched again.                                          *)
OneThingAmiss ==
  /\ Amiss <= 1
  /\ \A j \in Job : Active(j) \/ jobs[j] = AbsentJob
  /\ \A u \in User : ~users[u].restricted
  /\ allowed \subseteq {<<"user", g1>>}
  /\ \A g \in Group : groups[g] # Grants!Missing =>
       /\ (groups[g].exclusive <=> g = g1)
       /\ groups[g].status = "active" \/ groups[g].deleted
  /\ \A k \in Key : apiKeys[k] # Grants!Missing =>
       apiKeys[k].status = "active" \/ apiKeys[k].deleted
=============================================================================
