---------------------------- MODULE GroupThreads ----------------------------
(***************************************************************************)
(* One group thread: its owner, its members and its invites, as concurrent *)
(* HTTP requests change them (conversation_repository.rs and its use       *)
(* case).  Messages of the thread are those of module Messages.            *)
(*                                                                         *)
(* Statements on the pool commit by themselves.  Joining by invite is a    *)
(* transaction that holds the invite and the thread row FOR UPDATE; an     *)
(* insert into thread_members or group_invites needs the thread row FOR    *)
(* KEY SHARE and waits for it.  Deleting a member needs no lock on it.  No *)
(* code revokes an invite.                                                 *)
(***************************************************************************)
EXTENDS Naturals, FiniteSets

CONSTANTS
    Users,
    NoUser,     \* owner before the group is created
    Invites,    \* invite tokens
    NoArg,
    Limits,     \* values of max_uses a client may ask for
    MaxUses,    \* bound: uses of an invite
    MaxInitial, \* 30 members besides the owner
    Requests    \* HTTP requests in flight at the same time

ASSUME GroupAssumption ==
    /\ NoUser \notin Users
    /\ NoArg \notin Users \cup Invites
    /\ Users \cap Invites = {}
    /\ Limits \subseteq Nat \ {0}
    /\ MaxUses \in Nat /\ \A m \in Limits : m <= MaxUses
    /\ MaxInitial \in Nat

\* max_uses IS NULL.
Unlimited == MaxUses + 1

VARIABLES
    owner,      \* threads.owner_id
    members,    \* users with a thread_members row
    max_uses,   \* invite -> max_uses; 0 while it does not exist
    used_count, \* invite -> used_count
    expired,    \* invites with expires_at in the past
    pc,         \* where each request is
    who,        \* its user
    arg         \* the invite it uses or the user it adds

groupVars  == <<owner, members>>
inviteVars == <<max_uses, used_count, expired>>
localVars  == <<pc, who, arg>>
vars == <<groupVars, inviteVars, localVars>>

PCs == {"idle", "add", "leave", "member", "store", "insert", "count", "commit"}

(***************************************************************************)
(* Type invariant.                                                         *)
(***************************************************************************)
TypeOK ==
    /\ owner \in Users \cup {NoUser}
    /\ members \subseteq Users
    /\ max_uses \in [Invites -> Limits \cup {0, Unlimited}]
    /\ used_count \in [Invites -> 0 .. MaxUses]
    /\ expired \subseteq Invites
    /\ pc \in [Requests -> PCs]
    /\ who \in [Requests -> Users \cup {NoUser}]
    /\ arg \in [Requests -> Users \cup Invites \cup {NoArg}]

Init ==
    /\ owner = NoUser
    /\ members = {}
    /\ max_uses = [k \in Invites |-> 0]
    /\ used_count = [k \in Invites |-> 0]
    /\ expired = {}
    /\ pc = [r \in Requests |-> "idle"]
    /\ who = [r \in Requests |-> NoUser]
    /\ arg = [r \in Requests |-> NoArg]

Begin(r, u, label, a) ==
    /\ pc[r] = "idle"
    /\ pc' = [pc EXCEPT ![r] = label]
    /\ who' = [who EXCEPT ![r] = u]
    /\ arg' = [arg EXCEPT ![r] = a]

Goto(r, label) ==
    /\ pc' = [pc EXCEPT ![r] = label]
    /\ UNCHANGED <<who, arg>>

Return(r) ==
    /\ pc' = [pc EXCEPT ![r] = "idle"]
    /\ who' = [who EXCEPT ![r] = NoUser]
    /\ arg' = [arg EXCEPT ![r] = NoArg]

\* Mutant: the invite is read without FOR UPDATE.
MutThreadRowFree == TRUE

\* No join holds the thread row.
ThreadRowFree == \A q \in Requests : pc[q] \notin {"insert", "count", "commit"}

-----------------------------------------------------------------------------
\* normalize_member_ids: each user once, without the owner.
NormalizeMemberIds(u, S) == S \ {u}

\* create_group_thread: the owner and at most 30 others, one transaction.
CreateGroup(u, S) ==
    /\ owner = NoUser
    /\ Cardinality(NormalizeMemberIds(u, S)) <= MaxInitial
    /\ owner' = u
    /\ members' = {u} \cup NormalizeMemberIds(u, S)
    /\ UNCHANGED <<inviteVars, localVars>>

\* Mutant: anybody may add members.
MutAddGroupMember(r, u, target) ==
    /\ owner # NoUser
    /\ Begin(r, u, "add", target)
    /\ UNCHANGED <<groupVars, inviteVars>>

\* add_group_member: the owner check ...
AddGroupMember(r, u, target) ==
    /\ owner # NoUser /\ u = owner
    /\ Begin(r, u, "add", target)
    /\ UNCHANGED <<groupVars, inviteVars>>

\* ... and the INSERT; a member already there is a conflict.
InsertMember(r) ==
    /\ pc[r] = "add"
    /\ ThreadRowFree
    /\ members' = members \cup {arg[r]}
    /\ Return(r)
    /\ UNCHANGED <<owner, inviteVars>>

\* Mutant: the owner may leave too.
MutLeaveGroup(r, u) ==
    /\ owner # NoUser
    /\ Begin(r, u, "leave", NoArg)
    /\ UNCHANGED <<groupVars, inviteVars>>

\* leave_group: the owner is refused ...
LeaveGroup(r, u) ==
    /\ owner # NoUser /\ u # owner
    /\ Begin(r, u, "leave", NoArg)
    /\ UNCHANGED <<groupVars, inviteVars>>

\* ... the row of anybody else is deleted if it is there.
RemoveMember(r) ==
    /\ pc[r] = "leave"
    /\ members' = members \ {who[r]}
    /\ Return(r)
    /\ UNCHANGED <<owner, inviteVars>>

\* create_group_invite: find_group_thread_for_member, is_group_owner ...
CreateGroupInvite(r, u) ==
    /\ u \in members
    /\ Begin(r, u, "member", NoArg)
    /\ UNCHANGED <<groupVars, inviteVars>>

CheckOwner(r) ==
    /\ pc[r] = "member"
    /\ \/ who[r] = owner /\ Goto(r, "store")
       \/ who[r] # owner /\ Return(r)
    /\ UNCHANGED <<groupVars, inviteVars>>

\* ... and the INSERT of a new token.
StoreInvite(r, k, m) ==
    /\ pc[r] = "store"
    /\ ThreadRowFree
    /\ max_uses[k] = 0
    /\ max_uses' = [max_uses EXCEPT ![k] = m]
    /\ Return(r)
    /\ UNCHANGED <<groupVars, used_count, expired>>

\* join_group_via_invite: rows locked, not expired, not used up ...
JoinGroupInvite(r, u, k) ==
    /\ max_uses[k] # 0
    /\ ThreadRowFree
    /\ k \notin expired
    /\ max_uses[k] = Unlimited \/ used_count[k] < max_uses[k]
    /\ used_count[k] < MaxUses
    /\ Begin(r, u, "insert", k)
    /\ UNCHANGED <<groupVars, inviteVars>>

\* Mutant: a use is counted whether or not a row was inserted.
MutJoinInsert(r) ==
    /\ pc[r] = "insert"
    /\ Goto(r, "count")
    /\ UNCHANGED <<groupVars, inviteVars>>

\* ... INSERT ... ON CONFLICT DO NOTHING: a new row, or a member already ...
JoinInsert(r) ==
    /\ pc[r] = "insert"
    /\ Goto(r, IF who[r] \in members THEN "commit" ELSE "count")
    /\ UNCHANGED <<groupVars, inviteVars>>

\* ... a new row counts as a use; the commit makes both visible ...
JoinCommit(r) ==
    /\ pc[r] = "count"
    /\ members' = members \cup {who[r]}
    /\ used_count' = [used_count EXCEPT ![arg[r]] = @ + 1]
    /\ Return(r)
    /\ UNCHANGED <<owner, max_uses, expired>>

\* ... without one there is nothing to write.
JoinNothing(r) ==
    /\ pc[r] = "commit"
    /\ Return(r)
    /\ UNCHANGED <<groupVars, inviteVars>>

Expire(k) ==
    /\ max_uses[k] # 0
    /\ k \notin expired
    /\ expired' = expired \cup {k}
    /\ UNCHANGED <<groupVars, max_uses, used_count, localVars>>

\* A statement fails or the handler is dropped: a transaction rolls back.
Abort(r) ==
    /\ pc[r] # "idle"
    /\ Return(r)
    /\ UNCHANGED <<groupVars, inviteVars>>

Next ==
    \/ \E u \in Users, S \in SUBSET Users : CreateGroup(u, S)
    \/ \E r \in Requests, u, target \in Users : AddGroupMember(r, u, target)
    \/ \E r \in Requests : InsertMember(r)
    \/ \E r \in Requests, u \in Users : LeaveGroup(r, u)
    \/ \E r \in Requests : RemoveMember(r)
    \/ \E r \in Requests, u \in Users : CreateGroupInvite(r, u)
    \/ \E r \in Requests : CheckOwner(r)
    \/ \E r \in Requests, k \in Invites, m \in Limits \cup {Unlimited} : StoreInvite(r, k, m)
    \/ \E r \in Requests, u \in Users, k \in Invites : JoinGroupInvite(r, u, k)
    \/ \E r \in Requests : JoinInsert(r)
    \/ \E r \in Requests : JoinCommit(r)
    \/ \E r \in Requests : JoinNothing(r)
    \/ \E k \in Invites : Expire(k)
    \/ \E r \in Requests : Abort(r)

Spec == Init /\ [][Next]_vars

-----------------------------------------------------------------------------
(***************************************************************************)
(* Properties.                                                             *)
(***************************************************************************)

(***************************************************************************)
(* "group owner cannot leave group": the owner stays a member, whatever    *)
(* joins, additions and leaves are in flight.                              *)
(***************************************************************************)
OwnerIsMember == owner # NoUser => owner \in members

(***************************************************************************)
(* No invite is used more often than max_uses: joins that read its count   *)
(* exclude each other until they have committed.                           *)
(***************************************************************************)
InviteCap ==
    \A k \in Invites :
        max_uses[k] # Unlimited => used_count[k] <= max_uses[k]

(***************************************************************************)
(* One use, one new member: a use is counted exactly when it admits a user *)
(* who was not a member.                                                   *)
(***************************************************************************)
UseAdmits ==
    [][\A k \in Invites : used_count'[k] # used_count[k] =>
            \E u \in Users \ members : members' = members \cup {u}]_vars

(***************************************************************************)
(* Whoever becomes a member of an existing group was added by its owner or *)
(* is paid for by a use of an invite.                                      *)
(***************************************************************************)
Admission ==
    [][\A u \in members' \ members :
            \/ owner = NoUser
            \/ \E k \in Invites : used_count'[k] = used_count[k] + 1
            \/ \E r \in Requests : pc[r] = "add" /\ who[r] = owner /\ arg[r] = u]_vars

-----------------------------------------------------------------------------
(***************************************************************************)
(* The inductive invariant.                                                *)
(***************************************************************************)

Joining(r) == pc[r] \in {"insert", "count", "commit"}

\* Joins exclude each other; a join's invite has a use left, and the user
\* whose row it has inserted is not a member until the commit.
JoinSupport ==
    /\ \A q, r \in Requests : Joining(q) /\ Joining(r) => q = r
    /\ \A r \in Requests : Joining(r) =>
           /\ who[r] \in Users
           /\ arg[r] \in Invites
           /\ used_count[arg[r]] < MaxUses
           /\ max_uses[arg[r]] # Unlimited => used_count[arg[r]] < max_uses[arg[r]]
    /\ \A r \in Requests : pc[r] = "count" => who[r] \notin members

\* What the other requests have checked stays true until they write.
RequestSupport ==
    /\ \A r \in Requests : pc[r] = "add" => who[r] = owner /\ arg[r] \in Users
    /\ \A r \in Requests : pc[r] = "leave" => who[r] \in Users /\ who[r] # owner

\* Nothing happens before the group is created.
Fresh ==
    owner = NoUser => /\ members = {}
                      /\ \A r \in Requests : pc[r] = "idle"
                      /\ \A k \in Invites : max_uses[k] = 0

Inv ==
    /\ TypeOK
    /\ OwnerIsMember
    /\ InviteCap
    /\ JoinSupport
    /\ RequestSupport
    /\ Fresh
=============================================================================
