----------------------------- MODULE GuildProofs -----------------------------
(***************************************************************************)
(* Membership, invites, permission checks and channel positions of one     *)
(* guild, for any number of users, invites, channels and requests.         *)
(***************************************************************************)
EXTENDS Guild, FiniteSetTheorems, TLAPS

USE GuildAssumption DEF Unlimited

\* A request that runs has a user, and an invite or a name where it uses one.
RequestSupport ==
    \A r \in Requests :
        /\ pc[r] # "idle" => who[r] \in Users
        /\ pc[r] = "invite" => arg[r] \in Invites
        /\ pc[r] \in {"channel", "insert"} => arg[r] \in Names

\* Before the guild exists there is nothing.
Fresh ==
    owner = NoUser =>
        /\ members = {} /\ roles = {} /\ crossed = {}
        /\ \A k \in Invites : max_uses[k] = 0
        /\ \A r \in Requests : pc[r] = "idle"

\* A user who is a member although a leave of theirs is half done came back
\* meanwhile.
LeaveSupport ==
    \A r \in Requests : pc[r] = "leave" /\ who[r] \in members => who[r] \in crossed

\* The lock on the guild row.
RowLock ==
    \A q, r \in Requests : pc[q] = "invite" /\ pc[r] \in {"join", "invite"} => q = r

\* Uses stay within max_uses, with room for the join that holds the lock.
UseSupport ==
    /\ \A k \in Invites : max_uses[k] # Unlimited => uses_count[k] <= max_uses[k]
    /\ \A r \in Requests : pc[r] = "invite" =>
          /\ uses_count[arg[r]] < MaxUses
          /\ max_uses[arg[r]] # Unlimited => uses_count[arg[r]] < max_uses[arg[r]]

\* Whoever would be granted access by the roles there are now had it.
HeldSupport ==
    \A r \in Requests :
        \/ pc[r] = "check" /\ who[r] \in roles
        \/ pc[r] = "granted"
        => r \in held

\* There is a last channel, and no position below one that is there, or
\* about to be inserted, is missing.
PositionSupport ==
    /\ channels # {} => \E c \in channels : \A d \in channels : d.position <= c.position
    /\ PositionsGapFree
    /\ \A r \in Requests : pc[r] = "insert" => \A p \in Nat : p < pos[r] => p \in Positions

Inv ==
    /\ TypeOK
    /\ RequestSupport
    /\ Fresh
    /\ RoleFollowsMembership
    /\ LeaveSupport
    /\ RowLock
    /\ UseSupport
    /\ HeldSupport
    /\ PositionSupport

-----------------------------------------------------------------------------
\* Values of max_uses are numbers.
LEMMA LimitIsNat == ASSUME NEW m \in Limits \cup {0, MaxUses + 1} PROVE m \in Nat
<1>1. CASE m \in Limits
  BY <1>1
<1>2. CASE m \in {0, MaxUses + 1}
  BY <1>2
<1> QED
  BY <1>1, <1>2

\* Nothing is there at first.
LEMMA InitInv == Init => Inv
<1> SUFFICES ASSUME Init PROVE Inv
  OBVIOUS
<1>1. TypeOK
  BY DEF Init, TypeOK, PCs
<1>2. RequestSupport /\ Fresh /\ LeaveSupport /\ RowLock /\ UseSupport /\ HeldSupport
  BY DEF Init, RequestSupport, Fresh, LeaveSupport, RowLock, UseSupport, HeldSupport
<1>3. RoleFollowsMembership /\ PositionSupport
  BY DEF Init, RoleFollowsMembership, PositionSupport, PositionsGapFree
<1> QED
  BY <1>1, <1>2, <1>3 DEF Inv

\* The position read for a new channel is the first one above all others.
LEMMA NextIsFree ==
    ASSUME TypeOK, PositionSupport
    PROVE  NextPosition \in Nat /\ \A p \in Nat : p < NextPosition => p \in Positions
<1>1. CASE channels = {}
  BY <1>1 DEF NextPosition
<1>2. CASE channels # {}
  <2> DEFINE IsLast(p) == \A q \in Positions : q <= p
             last == CHOOSE p \in Positions : IsLast(p)
  <2>1. \E p \in Positions : IsLast(p)
    BY <1>2 DEF PositionSupport, Positions
  <2>2. last \in Positions
    BY <2>1
  <2>3. PICK c \in channels : last = c.position
    BY <2>2 DEF Positions
  <2>4. last \in Nat /\ NextPosition = 1 + last
    BY <1>2, <2>3 DEF TypeOK, NextPosition
  <2>5. \A p \in 0 .. last : p \in Positions
    BY <2>3 DEF PositionSupport, PositionsGapFree
  <2> HIDE DEF last
  <2> QED
    BY <2>4, <2>5
<1> QED
  BY <1>1, <1>2

\* Inv is preserved by the creation of the guild.
LEMMA CreateGuildStep ==
    ASSUME Inv, NEW u \in Users,
           CreateGuild(u)
    PROVE  Inv'
<1> USE DEF Inv, memberVars, inviteVars, localVars, CreateGuild
<1>1. TypeOK'
  BY DEF TypeOK, PCs, RequestSupport, UseSupport
<1>2. RequestSupport'
  BY DEF TypeOK, RequestSupport
<1>3. Fresh'
  BY DEF TypeOK, Fresh
<1>4. RoleFollowsMembership'
  BY DEF TypeOK, RequestSupport, RoleFollowsMembership, At, LeaveSupport, Fresh
<1>5. LeaveSupport'
  BY DEF TypeOK, LeaveSupport, At, Fresh
<1>6. RowLock'
  BY DEF TypeOK, RowLock
<1>7. UseSupport'
  BY DEF TypeOK, RequestSupport, UseSupport, RowLock, Fresh
<1>8. HeldSupport'
  BY DEF TypeOK, HeldSupport, At, Fresh
<1>9. PositionSupport'
  BY DEF TypeOK, PositionSupport, PositionsGapFree, Positions
<1> QED
  BY <1>1, <1>2, <1>3, <1>4, <1>5, <1>6, <1>7, <1>8, <1>9

\* Inv is preserved by the first half of a join.
LEMMA JoinGuildStep ==
    ASSUME Inv, NEW r \in Requests, NEW u \in Users,
           JoinGuild(r, u)
    PROVE  Inv'
<1> USE DEF Inv, memberVars, inviteVars, localVars, JoinGuild, Start, GuildRowFree
<1>1. TypeOK'
  BY DEF TypeOK, PCs, RequestSupport, UseSupport
<1>2. RequestSupport'
  BY DEF TypeOK, RequestSupport
<1>3. Fresh'
  BY DEF TypeOK, Fresh
<1>4. RoleFollowsMembership'
  BY DEF TypeOK, RequestSupport, RoleFollowsMembership, At, LeaveSupport, Fresh
<1>5. LeaveSupport'
  BY DEF TypeOK, LeaveSupport, At, Fresh
<1>6. RowLock'
  BY DEF TypeOK, RowLock
<1>7. UseSupport'
  BY DEF TypeOK, RequestSupport, UseSupport, RowLock, Fresh
<1>8. HeldSupport'
  BY DEF TypeOK, HeldSupport, At, Fresh
<1>9. PositionSupport'
  BY DEF TypeOK, PositionSupport, PositionsGapFree, Positions
<1> QED
  BY <1>1, <1>2, <1>3, <1>4, <1>5, <1>6, <1>7, <1>8, <1>9

\* Inv is preserved by the commit of a join.
LEMMA JoinCommitStep ==
    ASSUME Inv, NEW r \in Requests,
           JoinCommit(r)
    PROVE  Inv'
<1> USE DEF Inv, memberVars, inviteVars, localVars, JoinCommit, Enter, Return
<1>1. TypeOK'
  <2>1. who[r] \in Users
    BY DEF TypeOK, RequestSupport
  <2>2. members' \subseteq Users /\ roles' \subseteq Users /\ crossed' \subseteq Users
    BY <2>1 DEF TypeOK
  <2>3. held' \subseteq Requests
    BY DEF TypeOK, At
  <2> QED
    BY <2>2, <2>3 DEF TypeOK, PCs
<1>2. RequestSupport'
  BY DEF TypeOK, RequestSupport
<1>3. Fresh'
  BY DEF TypeOK, Fresh
<1>4. RoleFollowsMembership'
  BY DEF TypeOK, RequestSupport, RoleFollowsMembership, At, LeaveSupport, Fresh
<1>5. LeaveSupport'
  BY DEF TypeOK, LeaveSupport, At, Fresh
<1>6. RowLock'
  BY DEF TypeOK, RowLock
<1>7. UseSupport'
  BY DEF TypeOK, RequestSupport, UseSupport, RowLock, Fresh
<1>8. HeldSupport'
  BY DEF TypeOK, HeldSupport, At, Fresh
<1>9. PositionSupport'
  BY DEF TypeOK, PositionSupport, PositionsGapFree, Positions
<1> QED
  BY <1>1, <1>2, <1>3, <1>4, <1>5, <1>6, <1>7, <1>8, <1>9

\* Inv is preserved by the first statement of a leave.
LEMMA LeaveGuildStep ==
    ASSUME Inv, NEW r \in Requests, NEW u \in Users,
           LeaveGuild(r, u)
    PROVE  Inv'
<1> USE DEF Inv, memberVars, inviteVars, localVars, LeaveGuild, Start
<1>1. TypeOK'
  BY DEF TypeOK, PCs, RequestSupport, UseSupport
<1>2. RequestSupport'
  BY DEF TypeOK, RequestSupport
<1>3. Fresh'
  BY DEF TypeOK, Fresh
<1>4. RoleFollowsMembership'
  BY DEF TypeOK, RequestSupport, RoleFollowsMembership, At, LeaveSupport, Fresh
<1>5. LeaveSupport'
  BY DEF TypeOK, LeaveSupport, At, Fresh
<1>6. RowLock'
  BY DEF TypeOK, RowLock
<1>7. UseSupport'
  BY DEF TypeOK, RequestSupport, UseSupport, RowLock, Fresh
<1>8. HeldSupport'
  BY DEF TypeOK, HeldSupport, At, Fresh
<1>9. PositionSupport'
  BY DEF TypeOK, PositionSupport, PositionsGapFree, Positions
<1> QED
  BY <1>1, <1>2, <1>3, <1>4, <1>5, <1>6, <1>7, <1>8, <1>9

\* Inv is preserved by the second statement of a leave.
LEMMA LeaveRolesStep ==
    ASSUME Inv, NEW r \in Requests,
           LeaveRoles(r)
    PROVE  Inv'
<1> USE DEF Inv, memberVars, inviteVars, localVars, LeaveRoles, Return
<1>1. TypeOK'
  BY DEF TypeOK, PCs, RequestSupport, UseSupport
<1>2. RequestSupport'
  BY DEF TypeOK, RequestSupport
<1>3. Fresh'
  BY DEF TypeOK, Fresh
<1>4. RoleFollowsMembership'
  BY DEF TypeOK, RequestSupport, RoleFollowsMembership, At, LeaveSupport, Fresh
<1>5. LeaveSupport'
  BY DEF TypeOK, LeaveSupport, At, Fresh
<1>6. RowLock'
  BY DEF TypeOK, RowLock
<1>7. UseSupport'
  BY DEF TypeOK, RequestSupport, UseSupport, RowLock, Fresh
<1>8. HeldSupport'
  BY DEF TypeOK, HeldSupport, At, Fresh
<1>9. PositionSupport'
  BY DEF TypeOK, PositionSupport, PositionsGapFree, Positions
<1> QED
  BY <1>1, <1>2, <1>3, <1>4, <1>5, <1>6, <1>7, <1>8, <1>9

\* Inv is preserved by a new invite.
LEMMA CreateGuildInviteStep ==
    ASSUME Inv, NEW u \in Users, NEW k \in Invites, NEW m \in Limits \cup {Unlimited},
           CreateGuildInvite(u, k, m)
    PROVE  Inv'
<1> USE DEF Inv, memberVars, inviteVars, localVars, CreateGuildInvite
<1>1. TypeOK'
  BY DEF TypeOK, PCs, RequestSupport, UseSupport
<1>2. RequestSupport'
  BY DEF TypeOK, RequestSupport
<1>3. Fresh'
  BY DEF TypeOK, Fresh
<1>4. RoleFollowsMembership'
  BY DEF TypeOK, RequestSupport, RoleFollowsMembership, At, LeaveSupport, Fresh
<1>5. LeaveSupport'
  BY DEF TypeOK, LeaveSupport, At, Fresh
<1>6. RowLock'
  BY DEF TypeOK, RowLock
<1>7. UseSupport'
  BY DEF TypeOK, RequestSupport, UseSupport, RowLock, Fresh
<1>8. HeldSupport'
  BY DEF TypeOK, HeldSupport, At, Fresh
<1>9. PositionSupport'
  BY DEF TypeOK, PositionSupport, PositionsGapFree, Positions
<1> QED
  BY <1>1, <1>2, <1>3, <1>4, <1>5, <1>6, <1>7, <1>8, <1>9

\* Inv is preserved by the locking half of a join by invite.
LEMMA JoinByInviteStep ==
    ASSUME Inv, NEW r \in Requests, NEW u \in Users, NEW k \in Invites,
           JoinByInvite(r, u, k)
    PROVE  Inv'
<1> USE DEF Inv, memberVars, inviteVars, localVars, JoinByInvite, Start, GuildRowIdle
<1>1. TypeOK'
  BY DEF TypeOK, PCs, RequestSupport, UseSupport
<1>2. RequestSupport'
  BY DEF TypeOK, RequestSupport
<1>3. Fresh'
  BY DEF TypeOK, Fresh
<1>4. RoleFollowsMembership'
  BY DEF TypeOK, RequestSupport, RoleFollowsMembership, At, LeaveSupport, Fresh
<1>5. LeaveSupport'
  BY DEF TypeOK, LeaveSupport, At, Fresh
<1>6. RowLock'
  BY DEF TypeOK, RowLock
<1>7. UseSupport'
  BY DEF TypeOK, RequestSupport, UseSupport, RowLock, Fresh
<1>8. HeldSupport'
  BY DEF TypeOK, HeldSupport, At, Fresh
<1>9. PositionSupport'
  BY DEF TypeOK, PositionSupport, PositionsGapFree, Positions
<1> QED
  BY <1>1, <1>2, <1>3, <1>4, <1>5, <1>6, <1>7, <1>8, <1>9

\* Inv is preserved by the commit of a join by invite.
LEMMA InviteCommitStep ==
    ASSUME Inv, NEW r \in Requests,
           InviteCommit(r)
    PROVE  Inv'
<1> USE DEF Inv, memberVars, inviteVars, localVars, InviteCommit, Enter, Return
<1>1. TypeOK'
  <2>1. who[r] \in Users
    BY DEF TypeOK, RequestSupport
  <2>2. members' \subseteq Users /\ roles' \subseteq Users /\ crossed' \subseteq Users
    BY <2>1 DEF TypeOK
  <2>3. held' \subseteq Requests
    BY DEF TypeOK, At
  <2>4. arg[r] \in Invites /\ uses_count[arg[r]] + 1 \in 0 .. MaxUses
    BY DEF TypeOK, RequestSupport, UseSupport
  <2>5. uses_count' \in [Invites -> 0 .. MaxUses]
    BY <2>4 DEF TypeOK
  <2> QED
    BY <2>2, <2>3, <2>5 DEF TypeOK, PCs
<1>2. RequestSupport'
  BY DEF TypeOK, RequestSupport
<1>3. Fresh'
  BY DEF TypeOK, Fresh
<1>4. RoleFollowsMembership'
  BY DEF TypeOK, RequestSupport, RoleFollowsMembership, At, LeaveSupport, Fresh
<1>5. LeaveSupport'
  BY DEF TypeOK, LeaveSupport, At, Fresh
<1>6. RowLock'
  BY DEF TypeOK, RowLock
<1>7. UseSupport'
  <2>1. arg[r] \in Invites /\ uses_count[arg[r]] \in Nat
    BY DEF TypeOK, RequestSupport
  <2>2. ASSUME NEW k \in Invites, max_uses[k] # Unlimited PROVE uses_count'[k] <= max_uses[k]
    <3>1. max_uses[k] \in Nat /\ uses_count[k] \in Nat
      <4>1. max_uses[k] \in Limits \cup {0, MaxUses + 1} /\ uses_count[k] \in Nat
        BY DEF TypeOK
      <4> QED
        BY <4>1, LimitIsNat
    <3>2. CASE k = arg[r]
      BY <2>1, <2>2, <3>1, <3>2 DEF TypeOK, UseSupport
    <3>3. CASE k # arg[r]
      BY <2>1, <2>2, <3>1, <3>3 DEF TypeOK, UseSupport
    <3> QED
      BY <3>2, <3>3
  <2>3. \A q \in Requests : pc'[q] # "invite"
    BY DEF TypeOK, RowLock
  <2> QED
    BY <2>2, <2>3 DEF UseSupport
<1>8. HeldSupport'
  BY DEF TypeOK, HeldSupport, At, Fresh
<1>9. PositionSupport'
  BY DEF TypeOK, PositionSupport, PositionsGapFree, Positions
<1> QED
  BY <1>1, <1>2, <1>3, <1>4, <1>5, <1>6, <1>7, <1>8, <1>9

\* Inv is preserved by an invite's expiry.
LEMMA ExpireStep ==
    ASSUME Inv, NEW k \in Invites,
           Expire(k)
    PROVE  Inv'
<1> USE DEF Inv, memberVars, inviteVars, localVars, Expire
<1>1. TypeOK'
  BY DEF TypeOK, PCs, RequestSupport, UseSupport
<1>2. RequestSupport'
  BY DEF TypeOK, RequestSupport
<1>3. Fresh'
  BY DEF TypeOK, Fresh
<1>4. RoleFollowsMembership'
  BY DEF TypeOK, RequestSupport, RoleFollowsMembership, At, LeaveSupport, Fresh
<1>5. LeaveSupport'
  BY DEF TypeOK, LeaveSupport, At, Fresh
<1>6. RowLock'
  BY DEF TypeOK, RowLock
<1>7. UseSupport'
  BY DEF TypeOK, RequestSupport, UseSupport, RowLock, Fresh
<1>8. HeldSupport'
  BY DEF TypeOK, HeldSupport, At, Fresh
<1>9. PositionSupport'
  BY DEF TypeOK, PositionSupport, PositionsGapFree, Positions
<1> QED
  BY <1>1, <1>2, <1>3, <1>4, <1>5, <1>6, <1>7, <1>8, <1>9

\* Inv is preserved by the membership check of a new channel.
LEMMA CreateChannelStep ==
    ASSUME Inv, NEW r \in Requests, NEW u \in Users, NEW n \in Names,
           CreateChannel(r, u, n)
    PROVE  Inv'
<1> USE DEF Inv, memberVars, inviteVars, localVars, CreateChannel, Start
<1>1. TypeOK'
  BY DEF TypeOK, PCs, RequestSupport, UseSupport
<1>2. RequestSupport'
  BY DEF TypeOK, RequestSupport
<1>3. Fresh'
  BY DEF TypeOK, Fresh
<1>4. RoleFollowsMembership'
  BY DEF TypeOK, RequestSupport, RoleFollowsMembership, At, LeaveSupport, Fresh
<1>5. LeaveSupport'
  BY DEF TypeOK, LeaveSupport, At, Fresh
<1>6. RowLock'
  BY DEF TypeOK, RowLock
<1>7. UseSupport'
  BY DEF TypeOK, RequestSupport, UseSupport, RowLock, Fresh
<1>8. HeldSupport'
  BY DEF TypeOK, HeldSupport, At, Fresh
<1>9. PositionSupport'
  BY DEF TypeOK, PositionSupport, PositionsGapFree, Positions
<1> QED
  BY <1>1, <1>2, <1>3, <1>4, <1>5, <1>6, <1>7, <1>8, <1>9

\* Inv is preserved by the read of the next position.
LEMMA ReadPositionStep ==
    ASSUME Inv, NEW r \in Requests,
           ReadPosition(r)
    PROVE  Inv'
<1> USE DEF Inv, memberVars, inviteVars, localVars, ReadPosition
<1>1. TypeOK'
  <2>1. NextPosition \in Nat
    BY NextIsFree
  <2> QED
    BY <2>1 DEF TypeOK, PCs
<1>2. RequestSupport'
  BY DEF TypeOK, RequestSupport
<1>3. Fresh'
  BY DEF TypeOK, Fresh
<1>4. RoleFollowsMembership'
  BY DEF TypeOK, RequestSupport, RoleFollowsMembership, At, LeaveSupport, Fresh
<1>5. LeaveSupport'
  BY DEF TypeOK, LeaveSupport, At, Fresh
<1>6. RowLock'
  BY DEF TypeOK, RowLock
<1>7. UseSupport'
  BY DEF TypeOK, RequestSupport, UseSupport, RowLock, Fresh
<1>8. HeldSupport'
  BY DEF TypeOK, HeldSupport, At, Fresh
<1>9. PositionSupport'
  <2>1. \A p \in Nat : p < NextPosition => p \in Positions
    BY NextIsFree
  <2>2. UNCHANGED channels /\ Positions' = Positions
    BY DEF Positions
  <2> QED
    BY <2>1, <2>2 DEF TypeOK, PositionSupport, PositionsGapFree
<1> QED
  BY <1>1, <1>2, <1>3, <1>4, <1>5, <1>6, <1>7, <1>8, <1>9

\* Inv is preserved by the insert of a channel.
LEMMA InsertChannelStep ==
    ASSUME Inv, NEW r \in Requests,
           InsertChannel(r)
    PROVE  Inv'
<1> USE DEF Inv, memberVars, inviteVars, localVars, InsertChannel, Return
<1>1. TypeOK'
  BY DEF TypeOK, PCs, RequestSupport, UseSupport
<1>2. RequestSupport'
  BY DEF TypeOK, RequestSupport
<1>3. Fresh'
  BY DEF TypeOK, Fresh
<1>4. RoleFollowsMembership'
  BY DEF TypeOK, RequestSupport, RoleFollowsMembership, At, LeaveSupport, Fresh
<1>5. LeaveSupport'
  BY DEF TypeOK, LeaveSupport, At, Fresh
<1>6. RowLock'
  BY DEF TypeOK, RowLock
<1>7. UseSupport'
  BY DEF TypeOK, RequestSupport, UseSupport, RowLock, Fresh
<1>8. HeldSupport'
  BY DEF TypeOK, HeldSupport, At, Fresh
<1>9. PositionSupport'
  <2>1. CASE UNCHANGED channels
    BY <2>1 DEF TypeOK, PositionSupport, PositionsGapFree, Positions
  <2>2. CASE channels' # channels
    <3> DEFINE new == [name |-> arg[r], position |-> pos[r]]
    <3>1. channels' = channels \cup {new} /\ new.position = pos[r] /\ pos[r] \in Nat
      BY <2>2 DEF TypeOK
    <3>2. Positions' = Positions \cup {pos[r]}
      BY <3>1 DEF Positions
    <3>3. \A c \in channels : c.position \in Nat
      BY DEF TypeOK
    <3>4. \E c \in channels' : \A d \in channels' : d.position <= c.position
      <4>1. CASE channels = {}
        <5>1. channels' = {new} /\ new.position <= new.position
          BY <3>1, <4>1
        <5> QED
          BY <5>1
      <4>2. CASE channels # {}
        <5>1. PICK c \in channels : \A d \in channels : d.position <= c.position
          BY <4>2 DEF PositionSupport
        <5>2. CASE pos[r] <= c.position
          BY <3>1, <3>3, <5>1, <5>2
        <5>3. CASE ~(pos[r] <= c.position)
          BY <3>1, <3>3, <5>1, <5>3
        <5> QED
          BY <5>2, <5>3
      <4> QED
        BY <4>1, <4>2
    <3>5. \A p \in Nat : p < pos[r] => p \in Positions
      BY DEF PositionSupport
    <3>6. PositionsGapFree'
      <4> SUFFICES ASSUME NEW c \in channels', NEW p \in 0 .. c.position PROVE p \in Positions'
        BY DEF PositionsGapFree
      <4>1. CASE c \in channels
        BY <3>2, <3>3, <4>1 DEF PositionSupport, PositionsGapFree
      <4>2. CASE c = new
        BY <3>1, <3>2, <3>5, <4>2
      <4> QED
        BY <3>1, <4>1, <4>2
    <3>7. \A q \in Requests : pc'[q] = "insert" => \A p \in Nat : p < pos'[q] => p \in Positions'
      BY <3>2 DEF TypeOK, PositionSupport
    <3> QED
      BY <3>4, <3>6, <3>7 DEF PositionSupport
  <2> QED
    BY <2>1, <2>2
<1> QED
  BY <1>1, <1>2, <1>3, <1>4, <1>5, <1>6, <1>7, <1>8, <1>9

\* Inv is preserved by the membership read of a permission check.
LEMMA ResolvePermissionsStep ==
    ASSUME Inv, NEW r \in Requests, NEW u \in Users,
           ResolvePermissions(r, u)
    PROVE  Inv'
<1> USE DEF Inv, memberVars, inviteVars, localVars, ResolvePermissions, Start
<1>1. TypeOK'
  BY DEF TypeOK, PCs, RequestSupport, UseSupport
<1>2. RequestSupport'
  BY DEF TypeOK, RequestSupport
<1>3. Fresh'
  BY DEF TypeOK, Fresh
<1>4. RoleFollowsMembership'
  BY DEF TypeOK, RequestSupport, RoleFollowsMembership, At, LeaveSupport, Fresh
<1>5. LeaveSupport'
  BY DEF TypeOK, LeaveSupport, At, Fresh
<1>6. RowLock'
  BY DEF TypeOK, RowLock
<1>7. UseSupport'
  BY DEF TypeOK, RequestSupport, UseSupport, RowLock, Fresh
<1>8. HeldSupport'
  BY DEF TypeOK, HeldSupport, At, Fresh
<1>9. PositionSupport'
  BY DEF TypeOK, PositionSupport, PositionsGapFree, Positions
<1> QED
  BY <1>1, <1>2, <1>3, <1>4, <1>5, <1>6, <1>7, <1>8, <1>9

\* Inv is preserved by the role read of a permission check.
LEMMA ReadRolesStep ==
    ASSUME Inv, NEW r \in Requests,
           ReadRoles(r)
    PROVE  Inv'
<1> USE DEF Inv, memberVars, inviteVars, localVars, ReadRoles
<1>1. TypeOK'
  BY DEF TypeOK, PCs, RequestSupport, UseSupport
<1>2. RequestSupport'
  BY DEF TypeOK, RequestSupport
<1>3. Fresh'
  BY DEF TypeOK, Fresh
<1>4. RoleFollowsMembership'
  BY DEF TypeOK, RequestSupport, RoleFollowsMembership, At, LeaveSupport, Fresh
<1>5. LeaveSupport'
  BY DEF TypeOK, LeaveSupport, At, Fresh
<1>6. RowLock'
  BY DEF TypeOK, RowLock
<1>7. UseSupport'
  BY DEF TypeOK, RequestSupport, UseSupport, RowLock, Fresh
<1>8. HeldSupport'
  BY DEF TypeOK, HeldSupport, At, Fresh
<1>9. PositionSupport'
  BY DEF TypeOK, PositionSupport, PositionsGapFree, Positions
<1> QED
  BY <1>1, <1>2, <1>3, <1>4, <1>5, <1>6, <1>7, <1>8, <1>9

\* Inv is preserved by a refusal or the end of a permitted operation.
LEMMA FinishStep ==
    ASSUME Inv, NEW r \in Requests,
           Finish(r)
    PROVE  Inv'
<1> USE DEF Inv, memberVars, inviteVars, localVars, Finish, Return
<1>1. TypeOK'
  BY DEF TypeOK, PCs, RequestSupport, UseSupport
<1>2. RequestSupport'
  BY DEF TypeOK, RequestSupport
<1>3. Fresh'
  BY DEF TypeOK, Fresh
<1>4. RoleFollowsMembership'
  BY DEF TypeOK, RequestSupport, RoleFollowsMembership, At, LeaveSupport, Fresh
<1>5. LeaveSupport'
  BY DEF TypeOK, LeaveSupport, At, Fresh
<1>6. RowLock'
  BY DEF TypeOK, RowLock
<1>7. UseSupport'
  BY DEF TypeOK, RequestSupport, UseSupport, RowLock, Fresh
<1>8. HeldSupport'
  BY DEF TypeOK, HeldSupport, At, Fresh
<1>9. PositionSupport'
  BY DEF TypeOK, PositionSupport, PositionsGapFree, Positions
<1> QED
  BY <1>1, <1>2, <1>3, <1>4, <1>5, <1>6, <1>7, <1>8, <1>9

\* Inv is preserved by an interruption.
LEMMA AbortStep ==
    ASSUME Inv, NEW r \in Requests,
           Abort(r)
    PROVE  Inv'
<1> USE DEF Inv, memberVars, inviteVars, localVars, Abort, Return
<1>1. TypeOK'
  BY DEF TypeOK, PCs, RequestSupport, UseSupport
<1>2. RequestSupport'
  BY DEF TypeOK, RequestSupport
<1>3. Fresh'
  BY DEF TypeOK, Fresh
<1>4. RoleFollowsMembership'
  BY DEF TypeOK, RequestSupport, RoleFollowsMembership, At, LeaveSupport, Fresh
<1>5. LeaveSupport'
  BY DEF TypeOK, LeaveSupport, At, Fresh
<1>6. RowLock'
  BY DEF TypeOK, RowLock
<1>7. UseSupport'
  BY DEF TypeOK, RequestSupport, UseSupport, RowLock, Fresh
<1>8. HeldSupport'
  BY DEF TypeOK, HeldSupport, At, Fresh
<1>9. PositionSupport'
  BY DEF TypeOK, PositionSupport, PositionsGapFree, Positions
<1> QED
  BY <1>1, <1>2, <1>3, <1>4, <1>5, <1>6, <1>7, <1>8, <1>9

\* Every step keeps Inv.
LEMMA NextInv == Inv /\ [Next]_vars => Inv'
<1> SUFFICES ASSUME Inv, [Next]_vars PROVE Inv'
  OBVIOUS
<1>1. CASE UNCHANGED vars
  BY <1>1 DEF vars, memberVars, inviteVars, localVars, Inv, TypeOK, RequestSupport, Fresh,
              RoleFollowsMembership, At, LeaveSupport, RowLock, UseSupport, HeldSupport,
              PositionSupport, PositionsGapFree, Positions
<1>2. ASSUME NEW r \in Requests, Continue(r) PROVE Inv'
  BY <1>2, JoinCommitStep, LeaveRolesStep, InviteCommitStep, ReadPositionStep,
     InsertChannelStep, ReadRolesStep, FinishStep, AbortStep DEF Continue
<1>3. ASSUME NEW r \in Requests, NEW u \in Users, Begin(r, u) PROVE Inv'
  BY <1>3, JoinGuildStep, LeaveGuildStep, ResolvePermissionsStep, JoinByInviteStep,
     CreateChannelStep DEF Begin
<1> QED
  BY <1>1, <1>2, <1>3, CreateGuildStep, CreateGuildInviteStep, ExpireStep DEF Next

-----------------------------------------------------------------------------
\* The inductive invariant, with the type invariant.
THEOREM Invariance == Spec => []Inv
  BY InitInv, NextInv, PTL DEF Spec

\* Every variable keeps its type; uses never exceed the modelled bound, and a
\* channel name is used once.
THEOREM TypeCorrect == Spec => []TypeOK
<1>1. Inv => TypeOK
  BY DEF Inv
<1> QED
  BY <1>1, Invariance, PTL

\* Membership and default role go together but for the crossings and torn
\* leaves the property names.
THEOREM RolesOfMembers == Spec => []RoleFollowsMembership
<1>1. Inv => RoleFollowsMembership
  BY DEF Inv
<1> QED
  BY <1>1, Invariance, PTL

\* resolve_channel_permissions grants only what the user had during the check.
THEOREM NoStaleGrant == Spec => []AccessWasHeld
<1>1. Inv => AccessWasHeld
  BY DEF Inv, HeldSupport, AccessWasHeld
<1> QED
  BY <1>1, Invariance, PTL

\* join_guild_via_invite never lets in more than max_uses users: the lock
\* admits one join at a time, and that one has room.
THEOREM InviteLimit == Spec => []InviteCap
<1>1. Inv => InviteCap
  <2> SUFFICES ASSUME Inv, NEW k \in Invites, max_uses[k] # Unlimited
               PROVE  uses_count[k] + Cardinality({r \in Requests : pc[r] = "invite" /\ arg[r] = k})
                          <= max_uses[k]
    BY DEF InviteCap
  <2> DEFINE J == {r \in Requests : pc[r] = "invite" /\ arg[r] = k}
  <2>1. max_uses[k] \in Nat /\ uses_count[k] \in Nat /\ uses_count[k] <= max_uses[k]
    <3>1. max_uses[k] \in Limits \cup {0, MaxUses + 1} /\ uses_count[k] \in Nat
      BY DEF Inv, TypeOK
    <3> QED
      BY <3>1, LimitIsNat DEF Inv, UseSupport
  <2>2. CASE J = {}
    BY <2>1, <2>2, FS_EmptySet
  <2>3. ASSUME NEW q \in J PROVE uses_count[k] + Cardinality(J) <= max_uses[k]
    <3>1. J = {q}
      BY DEF Inv, RowLock
    <3>2. Cardinality(J) = 1
      BY <3>1, FS_Singleton
    <3>3. uses_count[k] < max_uses[k]
      BY DEF Inv, UseSupport
    <3> QED
      BY <2>1, <3>2, <3>3
  <2> QED
    BY <2>2, <2>3
<1> QED
  BY <1>1, Invariance, PTL

\* Whatever positions concurrent create_channel calls read, none is left out.
THEOREM NoGaps == Spec => []PositionsGapFree
<1>1. Inv => PositionsGapFree
  BY DEF Inv, PositionSupport
<1> QED
  BY <1>1, Invariance, PTL

=============================================================================
