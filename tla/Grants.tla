------------------------------- MODULE Grants -------------------------------
(***************************************************************************)
(* Who may use what: the groups of a tenant, the users allowed into them,  *)
(* and the API keys that bind a user to a group.                           *)
(*                                                                         *)
(* Each action is the transaction of one administration request.  Its      *)
(* actor is any active user; Accounts shows what stands behind that (a     *)
(* session that works when the transaction runs).  Roles are fixed here.   *)
(*                                                                         *)
(* The rule who may use a group is written twice in the code: once as a    *)
(* query over all groups, for the console's choice of groups, and once as  *)
(* a predicate of a user and a group, for every decision.                  *)
(***************************************************************************)
EXTENDS FiniteSets

CONSTANTS
  Member, Admin, Group, Key,
  KeyQuotas,   \* bound: values of api_keys.quota_units
  DailyQuotas  \* bound: values of groups.daily_units_per_user

ASSUME GrantsAssumption == Admin \subseteq Member /\ Admin # {}

VARIABLES
  members,   \* users: status and restrict_public_groups
  groups,    \* the table groups
  allowed,   \* the table user_allowed_groups
  keys,      \* the table api_keys, but for
  keyQuota,  \* api_keys.quota_units and
  dailyQuota \* groups.daily_units_per_user

quotaVars == <<keyQuota, dailyQuota>>
grantVars == <<members, groups, allowed, keys, quotaVars>>

Standing == {"active", "disabled"}

MemberRow == [status : Standing, restricted : BOOLEAN]
GroupRow  == [status : Standing, exclusive : BOOLEAN, deleted : BOOLEAN]
KeyRow    == [owner : Member, group : Group, status : Standing,
              expired : BOOLEAN, deleted : BOOLEAN]
Missing   == [status |-> "absent"]

GrantsInit ==
  /\ members = [u \in Member |-> [status |-> "active", restricted |-> FALSE]]
  /\ groups = [g \in Group |-> Missing]
  /\ allowed = {}
  /\ keys = [k \in Key |-> Missing]
  /\ keyQuota \in [Key -> KeyQuotas]
  /\ dailyQuota \in [Group -> DailyQuotas]

LiveGroup(g) == groups[g] # Missing /\ ~groups[g].deleted
LiveKey(k)   == keys[k] # Missing /\ ~keys[k].deleted

(* canUserBindGroup.                                                       *)
CanUserBindGroup(u, g) ==
  /\ members[u].status = "active"
  /\ LiveGroup(g)
  /\ groups[g].status = "active"
  /\ groups[g].exclusive \/ members[u].restricted => <<u, g>> \in allowed

(* Fault variant: an exclusive group is left out for those who are not     *)
(* restricted, whether they are allowed into it or not.                    *)
AvailableGroupsPublic(u) ==
  {g \in Group :
     /\ LiveGroup(g) /\ groups[g].status = "active"
     /\ \/ members[u].restricted /\ <<u, g>> \in allowed
        \/ ~groups[g].exclusive /\ ~members[u].restricted}

(* availableGroups: the groups the console offers to a user.               *)
AvailableGroups(u) ==
  {g \in Group :
     /\ LiveGroup(g) /\ groups[g].status = "active"
     /\ \/ (groups[g].exclusive \/ members[u].restricted) /\ <<u, g>> \in allowed
        \/ ~groups[g].exclusive /\ ~members[u].restricted}

(* authenticateServiceKey and serviceKeyGroupAvailable: the key, its user  *)
(* and its group are good for a job at this moment.                        *)
KeyWorks(k) ==
  /\ LiveKey(k)
  /\ keys[k].status = "active"
  /\ ~keys[k].expired
  /\ CanUserBindGroup(keys[k].owner, keys[k].group)

Acts(a)        == members[a].status = "active"
ActsAsAdmin(a) == Acts(a) /\ a \in Admin
-----------------------------------------------------------------------------
(* patchUser: what it changes besides the role.                            *)
PatchMember(a, u, status, restricted) ==
  /\ ActsAsAdmin(a)
  /\ u \in Admin /\ status = "disabled" =>
       \E v \in Admin \ {u} : members[v].status = "active"
  /\ members' = [members EXCEPT ![u] = [status |-> status, restricted |-> restricted]]
  /\ UNCHANGED <<groups, allowed, keys, quotaVars>>

(* replaceGroups: the user's memberships become exactly the given ones;    *)
(* a deleted group may be among them, its row is still there.              *)
ReplaceGroups(a, u, gs) ==
  /\ ActsAsAdmin(a)
  /\ \A g \in gs : groups[g] # Missing
  /\ allowed' = (allowed \ ({u} \X Group)) \cup ({u} \X gs)
  /\ UNCHANGED <<members, groups, keys, quotaVars>>

(* createGroup.                                                            *)
CreateGroup(a, g, exclusive, quota) ==
  /\ ActsAsAdmin(a)
  /\ groups[g] = Missing
  /\ groups' = [groups EXCEPT ![g] =
       [status |-> "active", exclusive |-> exclusive, deleted |-> FALSE]]
  /\ dailyQuota' = [dailyQuota EXCEPT ![g] = quota]
  /\ UNCHANGED <<members, allowed, keys, keyQuota>>

(* Fault variant: a deleted group can be edited, and made active.          *)
PatchGroupDeleted(a, g, status, exclusive, quota) ==
  /\ ActsAsAdmin(a)
  /\ groups[g] # Missing
  /\ groups' = [groups EXCEPT ![g].status = status, ![g].exclusive = exclusive]
  /\ dailyQuota' = [dailyQuota EXCEPT ![g] = quota]
  /\ UNCHANGED <<members, allowed, keys, keyQuota>>

(* patchGroup: its status, who may use it, and the daily quota.            *)
PatchGroup(a, g, status, exclusive, quota) ==
  /\ ActsAsAdmin(a)
  /\ LiveGroup(g)
  /\ groups' = [groups EXCEPT ![g].status = status, ![g].exclusive = exclusive]
  /\ dailyQuota' = [dailyQuota EXCEPT ![g] = quota]
  /\ UNCHANGED <<members, allowed, keys, keyQuota>>

(* deleteGroup: its keys and memberships stay, and no longer count.        *)
DeleteGroup(a, g) ==
  /\ ActsAsAdmin(a)
  /\ LiveGroup(g)
  /\ groups' = [groups EXCEPT ![g].status = "disabled", ![g].deleted = TRUE]
  /\ UNCHANGED <<members, allowed, keys, quotaVars>>

(* createKey: for oneself, or by an administrator for anyone; the owner    *)
(* must be allowed into the group.                                         *)
CreateKey(a, k, owner, g, quota) ==
  /\ Acts(a)
  /\ a \in Admin \/ a = owner
  /\ keys[k] = Missing
  /\ CanUserBindGroup(owner, g)
  /\ keys' = [keys EXCEPT ![k] = [owner |-> owner, group |-> g, status |-> "active",
                                  expired |-> FALSE, deleted |-> FALSE]]
  /\ keyQuota' = [keyQuota EXCEPT ![k] = quota]
  /\ UNCHANGED <<members, groups, allowed, dailyQuota>>

MayEdit(a, k) ==
  /\ Acts(a)
  /\ keys[k] # Missing
  /\ a \in Admin \/ a = keys[k].owner
  /\ ~keys[k].deleted

(* patchKey: status, expiry, quota and group; a new group must admit the   *)
(* owner.                                                                  *)
PatchKey(a, k, g, status, renew, quota) ==
  /\ MayEdit(a, k)
  /\ g # keys[k].group => CanUserBindGroup(keys[k].owner, g)
  /\ keys' = [keys EXCEPT ![k].group = g, ![k].status = status,
                          ![k].expired = @ /\ ~renew]
  /\ keyQuota' = [keyQuota EXCEPT ![k] = quota]
  /\ UNCHANGED <<members, groups, allowed, dailyQuota>>

(* deleteKey.                                                              *)
DeleteKey(a, k) ==
  /\ MayEdit(a, k)
  /\ keys' = [keys EXCEPT ![k].status = "disabled", ![k].deleted = TRUE]
  /\ UNCHANGED <<members, groups, allowed, quotaVars>>

(* The key's expires_at passes.                                            *)
KeyExpires(k) ==
  /\ LiveKey(k)
  /\ ~keys[k].expired
  /\ keys' = [keys EXCEPT ![k].expired = TRUE]
  /\ UNCHANGED <<members, groups, allowed, quotaVars>>

GrantsNext ==
  \/ \E a, u \in Member, status \in Standing, restricted \in BOOLEAN :
       PatchMember(a, u, status, restricted)
  \/ \E a, u \in Member, gs \in SUBSET Group : ReplaceGroups(a, u, gs)
  \/ \E a \in Member, g \in Group :
       \/ \E exclusive \in BOOLEAN, quota \in DailyQuotas : CreateGroup(a, g, exclusive, quota)
       \/ \E status \in Standing, exclusive \in BOOLEAN, quota \in DailyQuotas :
            PatchGroup(a, g, status, exclusive, quota)
       \/ DeleteGroup(a, g)
  \/ \E a \in Member, k \in Key :
       \/ \E owner \in Member, g \in Group, quota \in KeyQuotas :
            CreateKey(a, k, owner, g, quota)
       \/ \E g \in Group, status \in Standing, renew \in BOOLEAN, quota \in KeyQuotas :
            PatchKey(a, k, g, status, renew, quota)
       \/ DeleteKey(a, k)
  \/ \E k \in Key : KeyExpires(k)

GrantsSpec == GrantsInit /\ [][GrantsNext]_grantVars
-----------------------------------------------------------------------------
(* The two readings of the rule agree: the console offers an active user   *)
(* exactly the groups a key of theirs may be bound to and used in          *)
(* (admin-groups.ts:100-106, policy.ts:4-9).                               *)
PoliciesAgree ==
  \A u \in Member : members[u].status = "active" =>
    AvailableGroups(u) = {g \in Group : CanUserBindGroup(u, g)}

(* What is deleted stays as it is, its quota included, whoever edits it,   *)
(* and so gives no access again (admin-groups.ts:154, admin-keys.ts:146).  *)
DeletedIsFinal ==
  [][/\ \A g \in Group : groups[g] # Missing /\ groups[g].deleted =>
          groups'[g] = groups[g] /\ dailyQuota'[g] = dailyQuota[g]
     /\ \A k \in Key : keys[k] # Missing /\ keys[k].deleted =>
          /\ keys'[k] = keys[k] /\ keyQuota'[k] = keyQuota[k]
          /\ ~KeyWorks(k)']_grantVars
=============================================================================
