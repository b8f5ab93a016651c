-------------------------------- MODULE Guild --------------------------------
(***************************************************************************)
(* One guild: membership, the default role that carries the permissions,   *)
(* invites, channels and the permission check, as concurrent HTTP requests *)
(* change and read them (guild_channel_repository.rs and its use case).    *)
(*                                                                         *)
(* Statements on the pool commit by themselves; the joins are READ         *)
(* COMMITTED transactions.  Joining by invite locks the invite and the     *)
(* guild row FOR UPDATE; a direct join holds the guild row FOR KEY SHARE   *)
(* through the foreign key of guild_members: the two exclude each other.   *)
(* No operation writes channel_overrides or adds a role, so a member's     *)
(* permissions are those of the default role, VIEW_CHANNEL and             *)
(* SEND_MESSAGES, or none.                                                 *)
(***************************************************************************)
EXTENDS Naturals, FiniteSets

CONSTANTS
    Users,
    NoUser,     \* owner before the guild is created
    Invites,    \* invite tokens
    NoInvite,
    Limits,     \* values of max_uses a client may ask for
    MaxUses,    \* bound: uses of an invite
    Names,      \* channel names
    Requests    \* HTTP requests in flight at the same time

ASSUME GuildAssumption ==
    /\ NoUser \notin Users
    /\ NoInvite \notin Invites
    /\ Limits \subseteq Nat \ {0}
    /\ MaxUses \in Nat /\ \A m \in Limits : m <= MaxUses

\* max_uses IS NULL.
Unlimited == MaxUses + 1

VARIABLES
    owner,      \* guilds.owner_id
    members,    \* users with a guild_members row
    roles,      \* users with a member_roles row for the default role
    max_uses,   \* invite -> its max_uses; 0 while it does not exist
    uses_count, \* invite -> uses_count
    expired,    \* invites with expires_at in the past
    channels,   \* set of [name, position]
    pc,         \* where each request is
    who,        \* its user
    arg,        \* invite or channel name it is about
    pos,        \* position computed for a new channel
    held,       \* history: permission checks whose user had access meanwhile
    torn,       \* history: users whose leave stopped after its first statement
    crossed     \* history: users who last joined during a leave of theirs

memberVars  == <<owner, members, roles, torn, crossed>>
inviteVars  == <<max_uses, uses_count, expired>>
localVars   == <<pc, who, arg, pos>>
vars == <<memberVars, inviteVars, channels, localVars, held>>

PCs == {"idle", "join", "leave", "invite", "channel", "insert", "check", "granted"}

(***************************************************************************)
(* Type invariant; a channel name is used once.                            *)
(***************************************************************************)
TypeOK ==
    /\ owner \in Users \cup {NoUser}
    /\ members \subseteq Users
    /\ roles \subseteq Users
    /\ max_uses \in [Invites -> Limits \cup {0, Unlimited}]
    /\ uses_count \in [Invites -> 0 .. MaxUses]
    /\ expired \subseteq Invites
    /\ channels \subseteq [name : Names, position : Nat]
    /\ \A c, d \in channels : c.name = d.name => c = d
    /\ pc \in [Requests -> PCs]
    /\ who \in [Requests -> Users \cup {NoUser}]
    /\ arg \in [Requests -> Invites \cup Names \cup {NoInvite}]
    /\ pos \in [Requests -> Nat]
    /\ held \subseteq Requests
    /\ torn \subseteq Users
    /\ crossed \subseteq Users

Init ==
    /\ owner = NoUser
    /\ members = {}
    /\ roles = {}
    /\ max_uses = [k \in Invites |-> 0]
    /\ uses_count = [k \in Invites |-> 0]
    /\ expired = {}
    /\ channels = {}
    /\ pc = [r \in Requests |-> "idle"]
    /\ who = [r \in Requests |-> NoUser]
    /\ arg = [r \in Requests |-> NoInvite]
    /\ pos = [r \in Requests |-> 0]
    /\ held = {}
    /\ torn = {}
    /\ crossed = {}

Start(r, u, label, a) ==
    /\ pc[r] = "idle"
    /\ pc' = [pc EXCEPT ![r] = label]
    /\ who' = [who EXCEPT ![r] = u]
    /\ arg' = [arg EXCEPT ![r] = a]
    /\ UNCHANGED pos

Return(r) ==
    /\ pc' = [pc EXCEPT ![r] = "idle"]
    /\ who' = [who EXCEPT ![r] = NoUser]
    /\ arg' = [arg EXCEPT ![r] = NoInvite]
    /\ pos' = [pos EXCEPT ![r] = 0]

\* Requests at the given point, of user u.
At(label, u) == {q \in Requests : pc[q] = label /\ who[q] = u}

\* No join by invite holds the guild row.
GuildRowFree == \A q \in Requests : pc[q] # "invite"

\* Mutant: the invite is read without FOR UPDATE.
MutGuildRowIdle == TRUE

\* No transaction that inserts a member holds the guild row.
GuildRowIdle == \A q \in Requests : pc[q] \notin {"join", "invite"}

-----------------------------------------------------------------------------
\* create_guild: guild, owner's membership, default role, one transaction.
CreateGuild(u) ==
    /\ owner = NoUser
    /\ owner' = u
    /\ members' = {u}
    /\ roles' = {u}
    /\ UNCHANGED <<torn, crossed, inviteVars, channels, localVars, held>>

\* join_guild: the guild exists and the membership row could be inserted; a
\* second insert of the same row would wait for the first.
JoinGuild(r, u) ==
    /\ owner # NoUser
    /\ GuildRowFree
    /\ u \notin members
    /\ At("join", u) = {}
    /\ Start(r, u, "join", NoInvite)
    /\ UNCHANGED <<memberVars, inviteVars, channels, held>>

\* The user of r becomes a member with the default role.
Enter(r) ==
    /\ members' = members \cup {who[r]}
    /\ roles' = roles \cup {who[r]}
    /\ held' = held \cup At("check", who[r])
    /\ crossed' = IF At("leave", who[r]) = {} THEN crossed \ {who[r]}
                  ELSE crossed \cup {who[r]}
    /\ Return(r)
    /\ UNCHANGED <<owner, torn, channels>>

\* attach_default_role_to_member succeeds, commit.
JoinCommit(r) ==
    /\ pc[r] = "join"
    /\ who[r] \notin roles
    /\ Enter(r)
    /\ UNCHANGED inviteVars

\* Mutant: the roles are deleted first.
MutLeaveGuild(r, u) ==
    /\ owner # NoUser
    /\ u # owner
    /\ roles' = roles \ {u}
    /\ Start(r, u, "leave", NoInvite)
    /\ UNCHANGED <<owner, members, torn, crossed, inviteVars, channels, held>>

\* leave_guild by anyone but the owner: the membership row is deleted if it
\* is there...
LeaveGuild(r, u) ==
    /\ owner # NoUser
    /\ u # owner
    /\ members' = members \ {u}
    /\ Start(r, u, "leave", NoInvite)
    /\ UNCHANGED <<owner, roles, torn, crossed, inviteVars, channels, held>>

\* ... and so are, by a second statement, the role rows.
LeaveRoles(r) ==
    /\ pc[r] = "leave"
    /\ roles' = roles \ {who[r]}
    /\ torn' = torn \ {who[r]}
    /\ Return(r)
    /\ UNCHANGED <<owner, members, crossed, inviteVars, channels, held>>

-----------------------------------------------------------------------------
\* create_guild_invite: INSERT ... SELECT for a member.
CreateGuildInvite(u, k, m) ==
    /\ u \in members
    /\ max_uses[k] = 0
    /\ max_uses' = [max_uses EXCEPT ![k] = m]
    /\ UNCHANGED <<memberVars, uses_count, expired, channels, localVars, held>>

\* join_guild_via_invite: rows locked, not a member yet, not expired, not
\* used up; the membership row is inserted.
JoinByInvite(r, u, k) ==
    /\ max_uses[k] # 0
    /\ GuildRowIdle
    /\ u \notin members
    /\ k \notin expired
    /\ max_uses[k] = Unlimited \/ uses_count[k] < max_uses[k]
    /\ uses_count[k] < MaxUses
    /\ Start(r, u, "invite", k)
    /\ UNCHANGED <<memberVars, inviteVars, channels, held>>

\* The role is attached, the use is counted, commit.
InviteCommit(r) ==
    /\ pc[r] = "invite"
    /\ who[r] \notin roles
    /\ Enter(r)
    /\ uses_count' = [uses_count EXCEPT ![arg[r]] = @ + 1]
    /\ UNCHANGED <<max_uses, expired>>

Expire(k) ==
    /\ max_uses[k] # 0
    /\ k \notin expired
    /\ expired' = expired \cup {k}
    /\ UNCHANGED <<memberVars, max_uses, uses_count, channels, localVars, held>>

-----------------------------------------------------------------------------
\* create_channel: the membership check ...
CreateChannel(r, u, n) ==
    /\ u \in members
    /\ Start(r, u, "channel", n)
    /\ UNCHANGED <<memberVars, inviteVars, channels, held>>

Positions == {c.position : c \in channels}

\* Mutant: COUNT instead of MAX + 1.
MutNextPosition == Cardinality(channels)

\* COALESCE(MAX(position), -1) + 1
NextPosition ==
    IF channels = {} THEN 0
    ELSE 1 + CHOOSE p \in Positions : \A q \in Positions : q <= p

\* ... next_channel_position ...
ReadPosition(r) ==
    /\ pc[r] = "channel"
    /\ pc' = [pc EXCEPT ![r] = "insert"]
    /\ pos' = [pos EXCEPT ![r] = NextPosition]
    /\ UNCHANGED <<who, arg, memberVars, inviteVars, channels, held>>

\* Mutant: no unique constraint on the name.
MutInsertChannel(r) ==
    /\ pc[r] = "insert"
    /\ channels' = channels \cup {[name |-> arg[r], position |-> pos[r]]}
    /\ Return(r)
    /\ UNCHANGED <<memberVars, inviteVars, held>>

\* ... and the INSERT; the name must be free.
InsertChannel(r) ==
    /\ pc[r] = "insert"
    /\ channels' = IF \E c \in channels : c.name = arg[r] THEN channels
                   ELSE channels \cup {[name |-> arg[r], position |-> pos[r]]}
    /\ Return(r)
    /\ UNCHANGED <<memberVars, inviteVars, held>>

-----------------------------------------------------------------------------
\* Mutant: only the roles are read.
MutResolvePermissions(r, u) ==
    /\ Start(r, u, "check", NoInvite)
    /\ held' = IF u \in members \cap roles THEN held \cup {r} ELSE held
    /\ UNCHANGED <<memberVars, inviteVars, channels>>

\* resolve_channel_permissions: the membership ...
ResolvePermissions(r, u) ==
    /\ u \in members
    /\ Start(r, u, "check", NoInvite)
    /\ held' = IF u \in roles THEN held \cup {r} ELSE held
    /\ UNCHANGED <<memberVars, inviteVars, channels>>

\* ... then BIT_OR of the roles' permissions (the overrides are empty).
ReadRoles(r) ==
    /\ pc[r] = "check"
    /\ who[r] \in roles
    /\ pc' = [pc EXCEPT ![r] = "granted"]
    /\ UNCHANGED <<who, arg, pos, memberVars, inviteVars, channels, held>>

\* The request is refused (a role row is there already: primary key violation,
\* the join rolls back; no role: no permission) or a permitted operation ends.
Finish(r) ==
    /\ \/ pc[r] \in {"join", "invite"} /\ who[r] \in roles
       \/ pc[r] = "check" /\ who[r] \notin roles
       \/ pc[r] = "granted"
    /\ held' = held \ {r}
    /\ Return(r)
    /\ UNCHANGED <<memberVars, inviteVars, channels>>

\* A statement fails or the handler is dropped at an await (client gone,
\* process stopped): open transactions roll back.
Abort(r) ==
    /\ pc[r] # "idle"
    /\ torn' = IF pc[r] = "leave" THEN torn \cup {who[r]} ELSE torn
    /\ held' = held \ {r}
    /\ Return(r)
    /\ UNCHANGED <<owner, members, roles, crossed, inviteVars, channels>>

Begin(r, u) ==
    \/ JoinGuild(r, u)
    \/ LeaveGuild(r, u)
    \/ ResolvePermissions(r, u)
    \/ \E k \in Invites : JoinByInvite(r, u, k)
    \/ \E n \in Names : CreateChannel(r, u, n)

Continue(r) ==
    \/ JoinCommit(r)
    \/ LeaveRoles(r)
    \/ InviteCommit(r)
    \/ ReadPosition(r)
    \/ InsertChannel(r)
    \/ ReadRoles(r)
    \/ Finish(r)
    \/ Abort(r)

Next ==
    \/ \E u \in Users : CreateGuild(u)
    \/ \E u \in Users, k \in Invites, m \in Limits \cup {Unlimited} :
          CreateGuildInvite(u, k, m)
    \/ \E k \in Invites : Expire(k)
    \/ \E r \in Requests : Continue(r) \/ \E u \in Users : Begin(r, u)

Spec == Init /\ [][Next]_vars

-----------------------------------------------------------------------------
(***************************************************************************)
(* Membership and the default role, which is all of a member's access, go  *)
(* together, whatever is interrupted or interleaved.  A member without the *)
(* role is a user whose join committed between the two statements of a     *)
(* leave of their own.  A role without membership (which makes the next    *)
(* join fail) exists only during a leave or after an interrupted one, and  *)
(* leaving again removes it.                                               *)
(***************************************************************************)
RoleFollowsMembership ==
    /\ members \ crossed \subseteq roles
    /\ \A u \in roles \ members : u \in torn \/ At("leave", u) # {}

(***************************************************************************)
(* A permission is granted only to a user who really had it at some moment *)
(* of the check: the two reads are separate statements, and leaves and     *)
(* joins may come between them or have left role rows behind.              *)
(***************************************************************************)
AccessWasHeld == \A r \in Requests : pc[r] = "granted" => r \in held

(***************************************************************************)
(* An invite lets in at most max_uses users, joins in flight included:     *)
(* without the constraint guild_invites_uses_cap_check ever having to      *)
(* refuse one.                                                             *)
(***************************************************************************)
InviteCap ==
    \A k \in Invites : max_uses[k] # Unlimited =>
        uses_count[k] + Cardinality({r \in Requests : pc[r] = "invite" /\ arg[r] = k})
            <= max_uses[k]

(***************************************************************************)
(* Channel positions have no gaps, although two channels created at the    *)
(* same time share one.                                                    *)
(***************************************************************************)
PositionsGapFree ==
    \A c \in channels : \A p \in 0 .. c.position : p \in Positions

=============================================================================
