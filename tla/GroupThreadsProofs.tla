------------------------- MODULE GroupThreadsProofs -------------------------
(***************************************************************************)
(* The invariants of a group thread and its invites, for any number of     *)
(* users, invites and concurrent requests.                                 *)
(***************************************************************************)
EXTENDS GroupThreads, TLAPS

USE GroupAssumption DEF Unlimited

\* Values of max_uses are numbers.
LEMMA LimitIsNat == ASSUME NEW m \in Limits \cup {0, MaxUses + 1} PROVE m \in Nat
<1>1. CASE m \in Limits
  BY <1>1
<1>2. CASE m \in {0, MaxUses + 1}
  BY <1>2
<1> QED
  BY <1>1, <1>2

\* The group does not exist at first.
LEMMA InitInv == Init => Inv
<1> SUFFICES ASSUME Init PROVE Inv
  OBVIOUS
<1>1. TypeOK
  BY DEF Init, TypeOK, PCs
<1>2. OwnerIsMember /\ InviteCap /\ JoinSupport /\ RequestSupport /\ Fresh
  BY DEF Init, OwnerIsMember, InviteCap, JoinSupport, RequestSupport, Fresh, Joining
<1> QED
  BY <1>1, <1>2 DEF Inv

\* Inv is preserved by the creation of the group.
LEMMA CreateGroupStep ==
    ASSUME Inv, NEW u \in Users, NEW S \in SUBSET Users,
           CreateGroup(u, S)
    PROVE  Inv'
<1> USE DEF Inv, groupVars, inviteVars, localVars, CreateGroup, NormalizeMemberIds
<1>1. TypeOK'
  BY DEF TypeOK, JoinSupport, RequestSupport, Joining, PCs
<1>2. OwnerIsMember'
  BY DEF TypeOK, OwnerIsMember, RequestSupport, Fresh
<1>3. InviteCap'
  BY DEF TypeOK, InviteCap, JoinSupport, Joining
<1>4. JoinSupport'
  BY DEF TypeOK, JoinSupport, Joining, Fresh
<1>5. RequestSupport'
  BY DEF TypeOK, RequestSupport, Fresh
<1>6. Fresh'
  BY DEF TypeOK, Fresh
<1> QED
  BY <1>1, <1>2, <1>3, <1>4, <1>5, <1>6

\* Inv is preserved by the owner check of an addition.
LEMMA AddGroupMemberStep ==
    ASSUME Inv, NEW r \in Requests, NEW u \in Users, NEW target \in Users,
           AddGroupMember(r, u, target)
    PROVE  Inv'
<1> USE DEF Inv, groupVars, inviteVars, localVars, AddGroupMember, Begin
<1>1. TypeOK'
  BY DEF TypeOK, JoinSupport, RequestSupport, Joining, PCs
<1>2. OwnerIsMember'
  BY DEF TypeOK, OwnerIsMember, RequestSupport, Fresh
<1>3. InviteCap'
  BY DEF TypeOK, InviteCap, JoinSupport, Joining
<1>4. JoinSupport'
  BY DEF TypeOK, JoinSupport, Joining, Fresh
<1>5. RequestSupport'
  BY DEF TypeOK, RequestSupport, Fresh
<1>6. Fresh'
  BY DEF TypeOK, Fresh
<1> QED
  BY <1>1, <1>2, <1>3, <1>4, <1>5, <1>6

\* Inv is preserved by an addition.
LEMMA InsertMemberStep ==
    ASSUME Inv, NEW r \in Requests,
           InsertMember(r)
    PROVE  Inv'
<1> USE DEF Inv, groupVars, inviteVars, localVars, InsertMember, Return, ThreadRowFree
<1>1. TypeOK'
  BY DEF TypeOK, JoinSupport, RequestSupport, Joining, PCs
<1>2. OwnerIsMember'
  BY DEF TypeOK, OwnerIsMember, RequestSupport, Fresh
<1>3. InviteCap'
  BY DEF TypeOK, InviteCap, JoinSupport, Joining
<1>4. JoinSupport'
  BY DEF TypeOK, JoinSupport, Joining, Fresh
<1>5. RequestSupport'
  BY DEF TypeOK, RequestSupport, Fresh
<1>6. Fresh'
  BY DEF TypeOK, Fresh
<1> QED
  BY <1>1, <1>2, <1>3, <1>4, <1>5, <1>6

\* Inv is preserved by the owner check of a leave.
LEMMA LeaveGroupStep ==
    ASSUME Inv, NEW r \in Requests, NEW u \in Users,
           LeaveGroup(r, u)
    PROVE  Inv'
<1> USE DEF Inv, groupVars, inviteVars, localVars, LeaveGroup, Begin
<1>1. TypeOK'
  BY DEF TypeOK, JoinSupport, RequestSupport, Joining, PCs
<1>2. OwnerIsMember'
  BY DEF TypeOK, OwnerIsMember, RequestSupport, Fresh
<1>3. InviteCap'
  BY DEF TypeOK, InviteCap, JoinSupport, Joining
<1>4. JoinSupport'
  BY DEF TypeOK, JoinSupport, Joining, Fresh
<1>5. RequestSupport'
  BY DEF TypeOK, RequestSupport, Fresh
<1>6. Fresh'
  BY DEF TypeOK, Fresh
<1> QED
  BY <1>1, <1>2, <1>3, <1>4, <1>5, <1>6

\* Inv is preserved by a leave.
LEMMA RemoveMemberStep ==
    ASSUME Inv, NEW r \in Requests,
           RemoveMember(r)
    PROVE  Inv'
<1> USE DEF Inv, groupVars, inviteVars, localVars, RemoveMember, Return
<1>1. TypeOK'
  BY DEF TypeOK, JoinSupport, RequestSupport, Joining, PCs
<1>2. OwnerIsMember'
  BY DEF TypeOK, OwnerIsMember, RequestSupport, Fresh
<1>3. InviteCap'
  BY DEF TypeOK, InviteCap, JoinSupport, Joining
<1>4. JoinSupport'
  BY DEF TypeOK, JoinSupport, Joining, Fresh
<1>5. RequestSupport'
  BY DEF TypeOK, RequestSupport, Fresh
<1>6. Fresh'
  BY DEF TypeOK, Fresh
<1> QED
  BY <1>1, <1>2, <1>3, <1>4, <1>5, <1>6

\* Inv is preserved by the membership check of a new invite.
LEMMA CreateGroupInviteStep ==
    ASSUME Inv, NEW r \in Requests, NEW u \in Users,
           CreateGroupInvite(r, u)
    PROVE  Inv'
<1> USE DEF Inv, groupVars, inviteVars, localVars, CreateGroupInvite, Begin
<1>1. TypeOK'
  BY DEF TypeOK, JoinSupport, RequestSupport, Joining, PCs
<1>2. OwnerIsMember'
  BY DEF TypeOK, OwnerIsMember, RequestSupport, Fresh
<1>3. InviteCap'
  BY DEF TypeOK, InviteCap, JoinSupport, Joining
<1>4. JoinSupport'
  BY DEF TypeOK, JoinSupport, Joining, Fresh
<1>5. RequestSupport'
  BY DEF TypeOK, RequestSupport, Fresh
<1>6. Fresh'
  BY DEF TypeOK, Fresh
<1> QED
  BY <1>1, <1>2, <1>3, <1>4, <1>5, <1>6

\* Inv is preserved by the owner check of a new invite.
LEMMA CheckOwnerStep ==
    ASSUME Inv, NEW r \in Requests,
           CheckOwner(r)
    PROVE  Inv'
<1> USE DEF Inv, groupVars, inviteVars, localVars, CheckOwner, Goto, Return
<1>1. TypeOK'
  BY DEF TypeOK, JoinSupport, RequestSupport, Joining, PCs
<1>2. OwnerIsMember'
  BY DEF TypeOK, OwnerIsMember, RequestSupport, Fresh
<1>3. InviteCap'
  BY DEF TypeOK, InviteCap, JoinSupport, Joining
<1>4. JoinSupport'
  BY DEF TypeOK, JoinSupport, Joining, Fresh
<1>5. RequestSupport'
  BY DEF TypeOK, RequestSupport, Fresh
<1>6. Fresh'
  BY DEF TypeOK, Fresh
<1> QED
  BY <1>1, <1>2, <1>3, <1>4, <1>5, <1>6

\* Inv is preserved by a new invite.
LEMMA StoreInviteStep ==
    ASSUME Inv, NEW r \in Requests, NEW k \in Invites, NEW m \in Limits \cup {Unlimited},
           StoreInvite(r, k, m)
    PROVE  Inv'
<1> USE DEF Inv, groupVars, inviteVars, localVars, StoreInvite, Return, ThreadRowFree
<1>1. TypeOK'
  BY DEF TypeOK, JoinSupport, RequestSupport, Joining, PCs
<1>2. OwnerIsMember'
  BY DEF TypeOK, OwnerIsMember, RequestSupport, Fresh
<1>3. InviteCap'
  BY DEF TypeOK, InviteCap, JoinSupport, Joining
<1>4. JoinSupport'
  BY DEF TypeOK, JoinSupport, Joining, Fresh
<1>5. RequestSupport'
  BY DEF TypeOK, RequestSupport, Fresh
<1>6. Fresh'
  BY DEF TypeOK, Fresh
<1> QED
  BY <1>1, <1>2, <1>3, <1>4, <1>5, <1>6

\* Inv is preserved by the locking half of a join.
LEMMA JoinGroupInviteStep ==
    ASSUME Inv, NEW r \in Requests, NEW u \in Users, NEW k \in Invites,
           JoinGroupInvite(r, u, k)
    PROVE  Inv'
<1> USE DEF Inv, groupVars, inviteVars, localVars, JoinGroupInvite, Begin, ThreadRowFree
<1>1. TypeOK'
  BY DEF TypeOK, JoinSupport, RequestSupport, Joining, PCs
<1>2. OwnerIsMember'
  BY DEF TypeOK, OwnerIsMember, RequestSupport, Fresh
<1>3. InviteCap'
  BY DEF TypeOK, InviteCap, JoinSupport, Joining
<1>4. JoinSupport'
  BY DEF TypeOK, JoinSupport, Joining, Fresh
<1>5. RequestSupport'
  BY DEF TypeOK, RequestSupport, Fresh
<1>6. Fresh'
  BY DEF TypeOK, Fresh
<1> QED
  BY <1>1, <1>2, <1>3, <1>4, <1>5, <1>6

\* Inv is preserved by the insert of a join.
LEMMA JoinInsertStep ==
    ASSUME Inv, NEW r \in Requests,
           JoinInsert(r)
    PROVE  Inv'
<1> USE DEF Inv, groupVars, inviteVars, localVars, JoinInsert, Goto
<1>1. TypeOK'
  BY DEF TypeOK, JoinSupport, RequestSupport, Joining, PCs
<1>2. OwnerIsMember'
  BY DEF TypeOK, OwnerIsMember, RequestSupport, Fresh
<1>3. InviteCap'
  BY DEF TypeOK, InviteCap, JoinSupport, Joining
<1>4. JoinSupport'
  BY DEF TypeOK, JoinSupport, Joining, Fresh
<1>5. RequestSupport'
  BY DEF TypeOK, RequestSupport, Fresh
<1>6. Fresh'
  BY DEF TypeOK, Fresh
<1> QED
  BY <1>1, <1>2, <1>3, <1>4, <1>5, <1>6

\* Inv is preserved by the commit of a join.
LEMMA JoinCommitStep ==
    ASSUME Inv, NEW r \in Requests,
           JoinCommit(r)
    PROVE  Inv'
<1> USE DEF Inv, groupVars, inviteVars, localVars, JoinCommit, Return
<1>1. TypeOK'
  BY DEF TypeOK, JoinSupport, RequestSupport, Joining, PCs
<1>2. OwnerIsMember'
  BY DEF TypeOK, OwnerIsMember, RequestSupport, Fresh
<1>3. InviteCap'
  <2> SUFFICES ASSUME NEW k \in Invites, max_uses[k] # MaxUses + 1
               PROVE  used_count'[k] <= max_uses[k]
    BY DEF InviteCap
  <2>1. CASE k = arg[r]
    <3>1. used_count[k] \in Nat
      BY DEF TypeOK
    <3>2. max_uses[k] \in Limits \cup {0, MaxUses + 1}
      BY DEF TypeOK
    <3>3. max_uses[k] \in Nat
      BY <3>2, LimitIsNat
    <3>4. Joining(r)
      BY DEF Joining
    <3>5. used_count[k] < max_uses[k]
      BY <2>1, <3>4 DEF JoinSupport
    <3>6. used_count'[k] = used_count[k] + 1
      BY <2>1 DEF TypeOK
    <3> QED
      BY <3>1, <3>3, <3>5, <3>6
  <2>2. CASE k # arg[r]
    BY <2>2 DEF TypeOK, InviteCap
  <2> QED
    BY <2>1, <2>2
<1>4. JoinSupport'
  BY DEF TypeOK, JoinSupport, Joining, Fresh
<1>5. RequestSupport'
  BY DEF TypeOK, RequestSupport, Fresh
<1>6. Fresh'
  BY DEF TypeOK, Fresh
<1> QED
  BY <1>1, <1>2, <1>3, <1>4, <1>5, <1>6

\* Inv is preserved by the commit of a join without effect.
LEMMA JoinNothingStep ==
    ASSUME Inv, NEW r \in Requests,
           JoinNothing(r)
    PROVE  Inv'
<1> USE DEF Inv, groupVars, inviteVars, localVars, JoinNothing, Return
<1>1. TypeOK'
  BY DEF TypeOK, JoinSupport, RequestSupport, Joining, PCs
<1>2. OwnerIsMember'
  BY DEF TypeOK, OwnerIsMember, RequestSupport, Fresh
<1>3. InviteCap'
  BY DEF TypeOK, InviteCap, JoinSupport, Joining
<1>4. JoinSupport'
  BY DEF TypeOK, JoinSupport, Joining, Fresh
<1>5. RequestSupport'
  BY DEF TypeOK, RequestSupport, Fresh
<1>6. Fresh'
  BY DEF TypeOK, Fresh
<1> QED
  BY <1>1, <1>2, <1>3, <1>4, <1>5, <1>6

\* Inv is preserved by an invite that expires.
LEMMA ExpireStep ==
    ASSUME Inv, NEW k \in Invites,
           Expire(k)
    PROVE  Inv'
<1> USE DEF Inv, groupVars, inviteVars, localVars, Expire
<1>1. TypeOK'
  BY DEF TypeOK, JoinSupport, RequestSupport, Joining, PCs
<1>2. OwnerIsMember'
  BY DEF TypeOK, OwnerIsMember, RequestSupport, Fresh
<1>3. InviteCap'
  BY DEF TypeOK, InviteCap, JoinSupport, Joining
<1>4. JoinSupport'
  BY DEF TypeOK, JoinSupport, Joining, Fresh
<1>5. RequestSupport'
  BY DEF TypeOK, RequestSupport, Fresh
<1>6. Fresh'
  BY DEF TypeOK, Fresh
<1> QED
  BY <1>1, <1>2, <1>3, <1>4, <1>5, <1>6

\* Inv is preserved by a request that fails.
LEMMA AbortStep ==
    ASSUME Inv, NEW r \in Requests,
           Abort(r)
    PROVE  Inv'
<1> USE DEF Inv, groupVars, inviteVars, localVars, Abort, Return
<1>1. TypeOK'
  BY DEF TypeOK, JoinSupport, RequestSupport, Joining, PCs
<1>2. OwnerIsMember'
  BY DEF TypeOK, OwnerIsMember, RequestSupport, Fresh
<1>3. InviteCap'
  BY DEF TypeOK, InviteCap, JoinSupport, Joining
<1>4. JoinSupport'
  BY DEF TypeOK, JoinSupport, Joining, Fresh
<1>5. RequestSupport'
  BY DEF TypeOK, RequestSupport, Fresh
<1>6. Fresh'
  BY DEF TypeOK, Fresh
<1> QED
  BY <1>1, <1>2, <1>3, <1>4, <1>5, <1>6

LEMMA StutterStep == ASSUME Inv, UNCHANGED vars PROVE Inv'
BY DEF Inv, vars, groupVars, inviteVars, localVars, TypeOK, OwnerIsMember, InviteCap,
       JoinSupport, RequestSupport, Fresh, Joining

\* Every step of the specification preserves Inv.
LEMMA NextInv == Inv /\ [Next]_vars => Inv'
<1> SUFFICES ASSUME Inv, [Next]_vars PROVE Inv'
  OBVIOUS
<1> QED
  BY CreateGroupStep,
     AddGroupMemberStep,
     InsertMemberStep,
     LeaveGroupStep,
     RemoveMemberStep,
     CreateGroupInviteStep,
     CheckOwnerStep,
     StoreInviteStep,
     JoinGroupInviteStep,
     JoinInsertStep,
     JoinCommitStep,
     JoinNothingStep,
     ExpireStep,
     AbortStep, StutterStep DEF Next

\* Inv holds in every reachable state.
THEOREM Invariance == Spec => []Inv
BY InitInv, NextInv, PTL DEF Spec

\* The owner of a group is always one of its members: leave_group's check of
\* the owner cannot be stale, because the owner of a thread never changes.
THEOREM OwnerStaysMember == Spec => []OwnerIsMember
<1>1. Inv => OwnerIsMember
  BY DEF Inv
<1> QED
  BY <1>1, Invariance, PTL

\* No interleaving of joins uses an invite more than max_uses times.
THEOREM InviteLimit == Spec => []InviteCap
<1>1. Inv => InviteCap
  BY DEF Inv
<1> QED
  BY <1>1, Invariance, PTL

\* A use is counted exactly when it admits a new member.
THEOREM UsePerMember == Spec => UseAdmits
<1>1. Inv /\ [Next]_vars =>
        [\A k \in Invites : used_count'[k] # used_count[k] =>
            \E u \in Users \ members : members' = members \cup {u}]_vars
  <2> SUFFICES ASSUME Inv, Next, NEW k \in Invites, used_count'[k] # used_count[k]
               PROVE  \E u \in Users \ members : members' = members \cup {u}
    BY DEF vars, groupVars, inviteVars, localVars
  <2>1. PICK r \in Requests : JoinCommit(r)
    BY DEF Next, inviteVars, CreateGroup, AddGroupMember, InsertMember, LeaveGroup, RemoveMember,
           CreateGroupInvite, CheckOwner, StoreInvite, JoinGroupInvite, JoinInsert, JoinNothing,
           Expire, Abort
  <2>2. who[r] \in Users \ members /\ members' = members \cup {who[r]}
    BY <2>1 DEF JoinCommit, Inv, JoinSupport, Joining
  <2> QED
    BY <2>2
<1> QED
  BY <1>1, Invariance, PTL DEF Spec, UseAdmits

\* A new member of a group was added by the owner or costs an invite a use.
THEOREM NoOtherWayIn == Spec => Admission
<1>1. Inv /\ [Next]_vars =>
        [\A u \in members' \ members :
            \/ owner = NoUser
            \/ \E k \in Invites : used_count'[k] = used_count[k] + 1
            \/ \E r \in Requests : pc[r] = "add" /\ who[r] = owner /\ arg[r] = u]_vars
  <2> SUFFICES ASSUME Inv, Next, NEW u \in members' \ members, owner # NoUser
               PROVE  \/ \E k \in Invites : used_count'[k] = used_count[k] + 1
                      \/ \E r \in Requests : pc[r] = "add" /\ who[r] = owner /\ arg[r] = u
    BY DEF vars, groupVars, inviteVars, localVars
  <2>1. \E r \in Requests : InsertMember(r) \/ JoinCommit(r)
    BY DEF Next, groupVars, CreateGroup, AddGroupMember, LeaveGroup, RemoveMember,
           CreateGroupInvite, CheckOwner, StoreInvite, JoinGroupInvite, JoinInsert, JoinNothing,
           Expire, Abort
  <2>2. ASSUME NEW r \in Requests, InsertMember(r)
        PROVE  pc[r] = "add" /\ who[r] = owner /\ arg[r] = u
    BY <2>2 DEF InsertMember, Inv, RequestSupport
  <2>3. ASSUME NEW r \in Requests, JoinCommit(r)
        PROVE  \E k \in Invites : used_count'[k] = used_count[k] + 1
    BY <2>3 DEF JoinCommit, Inv, TypeOK, JoinSupport, Joining
  <2> QED
    BY <2>1, <2>2, <2>3
<1> QED
  BY <1>1, Invariance, PTL DEF Spec, Admission
=============================================================================
