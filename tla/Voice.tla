-------------------------------- MODULE Voice --------------------------------
(***************************************************************************)
(* Who is in which voice channel of a group, told twice: the users of each *)
(* channel in the cached Group, and the voice of each Session.  Voice      *)
(* events run on the websocket thread between two awaits, so one event is  *)
(* one step; DeleteChannel and the removal of a member await the database  *)
(* under the group's keyed lock.  The group is loaded with empty channels  *)
(* and evicted with whoever is in them.  Some of a channel's users may be  *)
(* in its watch party, whose host chooses what it shows.                   *)
(***************************************************************************)
EXTENDS Naturals, FiniteSetsExt

CONSTANTS Users,     \* ids: the least becomes the host when the host leaves
          Owner,     \* groups.created_by, never removed
          Channels,  \* voice channels
          Scopes,    \* bounds: the channels the group starts with, whether
                     \* there are parties, and the restless users, who open
                     \* a second connection, speak elsewhere, leave events
                     \* behind and move between channels
          Silent,    \* State::voice is None
          Elsewhere, \* Some(voice) in a direct call or another group
          NoSession, NoGroup, NoParty, Free

ASSUME VoiceAssumption ==
    /\ Users \subseteq Nat /\ Owner \in Users
    /\ {Silent, Elsewhere} \cap Channels = {}
    /\ Silent # Elsewhere
    /\ Scopes \subseteq [channels : SUBSET Channels, parties : BOOLEAN,
                         restless : SUBSET Users]

VARIABLES
    db,         \* rows of the group, its members and its voice channels
    group,      \* AppState.groups[g], or NoGroup
    session,    \* AppState.users[u], or NoSession
    late,       \* users whose former session left an event task with events
    lock,       \* what the holder of group_locks.write(g) is doing, or Free
    strays,     \* history: users a named hazard has left in disagreement
    scope       \* the bounds of this behaviour

vars == <<db, group, session, late, lock, strays, scope>>

Restless == scope.restless

Session == [conns : 1..2, voice : Channels \cup {Silent, Elsewhere}]
Party == [host : Users, users : SUBSET Users,
          shows : {"nothing", "paused", "playing"}]
Group == [members : SUBSET Users, channels : SUBSET Channels,
          subs : SUBSET Users,
          users : [Channels -> SUBSET Users],
          party : [Channels -> Party \cup {NoParty}]]

ASSUME ValuesApart ==
    /\ NoSession \notin Session /\ NoGroup \notin Group /\ NoParty \notin Party
    /\ Free \notin [kind : {"remove"}, user : Users] \cup
                   [kind : {"delete"}, channel : Channels]

TypeOK ==
    /\ db \in [exists : BOOLEAN, members : SUBSET Users, channels : SUBSET Channels]
    /\ group \in Group \cup {NoGroup}
    /\ session \in [Users -> Session \cup {NoSession}]
    /\ late \subseteq Users
    /\ lock \in [kind : {"remove"}, user : Users] \cup
                [kind : {"delete"}, channel : Channels] \cup {Free}
    /\ strays \subseteq Users
    /\ group # NoGroup => \A c \in Channels \ group.channels :
                              group.users[c] = {} /\ group.party[c] = NoParty

Init ==
    /\ scope \in Scopes
    /\ db = [exists |-> TRUE, members |-> Users, channels |-> scope.channels]
    /\ group = NoGroup
    /\ session = [u \in Users |-> NoSession]
    /\ late = {}
    /\ lock = Free
    /\ strays = {}

------------------------------------------------------------------------------
(* Helpers *)

Cached == group # NoGroup
Online(u) == session[u] # NoSession

(* An event of u is handled by the task of its session, or by the task a   *)
(* former session has left behind.                                         *)
Acts(u) == Online(u) \/ u \in late

(* WatchPartyOpt::remove_user *)
LeftParty_HostStays(p, u) ==
    IF p = NoParty \/ p.users \subseteq {u} THEN NoParty
    ELSE [p EXCEPT !.users = @ \ {u}]
LeftParty(p, u) ==
    IF p = NoParty \/ p.users \subseteq {u} THEN NoParty
    ELSE [p EXCEPT !.users = @ \ {u},
                   !.host = IF @ = u THEN Min(p.users \ {u}) ELSE @]

(* u is taken from the channels cs of g, and from their parties. *)
LeftChannels_NotParties(g, u, cs) ==
    [g EXCEPT !.users = [c \in Channels |-> IF c \in cs THEN @[c] \ {u} ELSE @[c]]]
LeftChannels(g, u, cs) ==
    [g EXCEPT
        !.users = [c \in Channels |-> IF c \in cs THEN @[c] \ {u} ELSE @[c]],
        !.party = [c \in Channels |-> IF c \in cs THEN LeftParty(@[c], u) ELSE @[c]]]

(* The sessions in which user u, if online, has voice v. *)
WithVoice(u, v) ==
    IF Online(u) THEN [session EXCEPT ![u].voice = v] ELSE session

Listed(u) == IF Cached THEN {c \in group.channels : u \in group.users[c]} ELSE {}
Spoken(u) == IF Online(u) THEN {session[u].voice} \cap Channels ELSE {}
Agree(u) == Listed(u) = Spoken(u)

(* History: only the users in new may become strays, and a stray who       *)
(* agrees again is none.                                                   *)
Straying(new) == strays' = {u \in strays \cup new : ~Agree(u)'}

------------------------------------------------------------------------------
(* Sessions *)

Connect(u) ==
    /\ session' = [session EXCEPT ![u] =
           IF Online(u) THEN [conns |-> session[u].conns + 1, voice |-> session[u].voice]
           ELSE [conns |-> 1, voice |-> Silent]]
    /\ Online(u) => session[u].conns = 1 /\ u \in Restless
    /\ UNCHANGED <<db, group, late, lock>>
    /\ Straying({})

(* disconnect and disconnect_voice: whichever connection closes, the       *)
(* session's voice is taken.  Events may be left in the session's channel. *)
GroupAfter_OnlyLast(u) ==
    IF Cached /\ session[u].voice \in group.channels /\ session[u].conns = 1
    THEN LeftChannels(group, u, {session[u].voice}) ELSE group
GroupAfter(u) ==
    IF Cached /\ session[u].voice \in group.channels
    THEN LeftChannels(group, u, {session[u].voice}) ELSE group

Disconnect(u) ==
    /\ Online(u)
    /\ group' = GroupAfter(u)
    /\ IF session[u].conns = 1
       THEN /\ session' = [session EXCEPT ![u] = NoSession]
            /\ late' \in {late, late \cup ({u} \cap Restless)}
       ELSE /\ session' = [session EXCEPT ![u] = [conns |-> session[u].conns - 1,
                                                  voice |-> Silent]]
            /\ UNCHANGED late
    /\ UNCHANGED <<db, lock>>
    /\ Straying({})

(* The event task of a former session has run dry. *)
TaskEnds(u) ==
    /\ u \in late
    /\ late' = late \ {u}
    /\ UNCHANGED <<db, group, session, lock, strays>>

(* Voice in a direct call or another group begins or ends.  Neither asks   *)
(* where the voice has been by then: a direct JoinVoice has looked before  *)
(* it awaits the write of the call, and while a former session's task is   *)
(* at it this one may have joined a channel; an ExitVoice of another group *)
(* clears whatever voice there is.  This group's channel is not told.      *)
SpeakElsewhere(u) ==
    /\ u \in Restless
    /\ Online(u)
    /\ \E v \in {Silent, Elsewhere} : session' = WithVoice(u, v)
    /\ UNCHANGED <<db, group, late, lock>>
    /\ Straying(IF Spoken(u) = {} THEN {} ELSE {u})

------------------------------------------------------------------------------
(* The group in the cache *)

EmptyChannels ==
    [members |-> db.members, channels |-> db.channels, subs |-> {},
     users |-> [c \in Channels |-> {}], party |-> [c \in Channels |-> NoParty]]

(* Subscribe: the group is loaded under its lock if need be.  The          *)
(* connections a user has subscribed count as one.                         *)
Subscribe(u) ==
    /\ Acts(u)
    /\ IF Cached THEN TRUE ELSE lock = Free /\ db.exists
    /\ LET g == IF Cached THEN group ELSE EmptyChannels IN
       group' = IF Online(u) /\ u \in g.members
                THEN [g EXCEPT !.subs = @ \cup {u}] ELSE g
    /\ UNCHANGED <<db, session, late, lock>>
    /\ Straying({})

(* Unsubscribe by the last connection of u that is subscribed; the last    *)
(* user evicts the group, with the users of its channels.                  *)
Unsubscribe(u) ==
    /\ Acts(u)
    /\ Cached
    /\ LET left == group.subs \ {u} IN
       group' = IF left = {} THEN NoGroup ELSE [group EXCEPT !.subs = left]
    /\ UNCHANGED <<db, session, late, lock>>
    /\ Straying(IF Cached' THEN {} ELSE Users)

------------------------------------------------------------------------------
(* Voice events *)

(* Event::JoinVoice; CONNECT needs membership. *)
JoinVoice_AnyChannel(u, c) ==
    /\ Acts(u)
    /\ Cached
    /\ u \in group.members
    /\ Online(u) => session[u].voice = Silent
    /\ group' = [group EXCEPT !.users[c] = @ \cup {u}]
    /\ session' = WithVoice(u, c)
    /\ UNCHANGED <<db, late, lock>>
    /\ Straying(IF Online(u) THEN {} ELSE {u})

JoinVoice(u, c) ==
    /\ Acts(u)
    /\ Cached
    /\ u \in group.members
    /\ c \in group.channels
    /\ Online(u) => session[u].voice = Silent
    /\ group' = [group EXCEPT !.users[c] = @ \cup {u}]
    /\ session' = WithVoice(u, c)
    /\ UNCHANGED <<db, late, lock>>
    /\ Straying(IF Online(u) THEN {} ELSE {u})

(* Event::ExitVoice takes the user from the channel it names, and clears   *)
(* the session's voice wherever it was.                                    *)
ExitVoice(u, c) ==
    /\ Acts(u)
    /\ Cached
    /\ c \in group.channels
    /\ group' = [group EXCEPT !.users[c] = @ \ {u}]
    /\ session' = WithVoice(u, Silent)
    /\ UNCHANGED <<db, late, lock>>
    /\ Straying(IF c \in Spoken(u) THEN {} ELSE {u})

(* Event::MoveToVoice tells neither the former channel nor the session. *)
MoveToVoice(u, c) ==
    /\ u \in Restless
    /\ Acts(u)
    /\ Cached
    /\ c \in group.channels
    /\ group' = [group EXCEPT !.users[c] = @ \cup {u}]
    /\ UNCHANGED <<db, session, late, lock>>
    /\ Straying({u})

------------------------------------------------------------------------------
(* Watch parties *)

PartyEvent(u, c, becomes) ==
    /\ scope.parties /\ Acts(u)
    /\ Cached
    /\ c \in group.channels
    /\ group' = [group EXCEPT !.party[c] = becomes]
    /\ UNCHANGED <<db, session, late, lock, strays>>

(* Event::JoinParty asks for the channel's users, not for a session. *)
JoinParty(u, c) ==
    /\ Cached /\ u \in group.users[c]
    /\ PartyEvent(u, c,
           IF group.party[c] = NoParty
           THEN [host |-> u, users |-> {u}, shows |-> "nothing"]
           ELSE [group.party[c] EXCEPT !.users = @ \cup {u}])

LeaveParty(u, c) ==
    /\ Cached
    /\ PartyEvent(u, c, LeftParty(group.party[c], u))

(* Event::Watch with another video than before, or with none. *)
Watch(u, c) ==
    /\ Cached /\ group.party[c] # NoParty /\ group.party[c].host = u
    /\ \E s \in {"nothing", "paused"} :
           PartyEvent(u, c, [group.party[c] EXCEPT !.shows = s])

JumpTo(u, c) ==
    /\ Cached /\ group.party[c] # NoParty /\ group.party[c].host = u
    /\ group.party[c].shows # "nothing"
    /\ \E s \in {"paused", "playing"} :
           PartyEvent(u, c, [group.party[c] EXCEPT !.shows = s])

------------------------------------------------------------------------------
(* Channels and members that go, in two steps each: the database under the *)
(* lock, then the cache.  What allowed them was read from the cached group *)
(* before the lock was asked for, and may hold no longer.                  *)

DeleteChannelInDb(u, c) ==
    /\ Acts(u)
    /\ lock = Free
    /\ c \in db.channels
    /\ db' = [db EXCEPT !.channels = @ \ {c}]
    /\ lock' = [kind |-> "delete", channel |-> c]
    /\ UNCHANGED <<group, session, late, strays>>

(* delete_channel; the sessions keep naming the channel.  If deleting its  *)
(* messages has failed, the cache keeps the channel, too.                  *)
DeleteChannelApply ==
    /\ lock # Free /\ lock.kind = "delete"
    /\ \/ UNCHANGED group
       \/ /\ Cached
          /\ group' = [group EXCEPT !.channels = @ \ {lock.channel},
                                    !.users[lock.channel] = {},
                                    !.party[lock.channel] = NoParty]
    /\ lock' = Free
    /\ UNCHANGED <<db, session, late>>
    /\ Straying({u \in Users : lock.channel \in Spoken(u)})

(* KickUser, BanUser or LeaveGroup has removed u from the database. *)
RemoveInDb(u) ==
    /\ u # Owner
    /\ lock = Free
    /\ u \in db.members
    /\ db' = [db EXCEPT !.members = @ \ {u}]
    /\ lock' = [kind |-> "remove", user |-> u]
    /\ UNCHANGED <<group, session, late, strays>>

(* Its session's voice is cleared, if it is in this group, and             *)
(* Group::remove_member takes it from every channel.                       *)
Removed(g, u) ==
    [LeftChannels(g, u, g.channels) EXCEPT !.members = @ \ {u},
                                           !.subs = @ \ {u}]

RemoveApply ==
    /\ lock # Free /\ lock.kind = "remove"
    /\ LET u == lock.user IN
           /\ session' = IF Spoken(u) # {} THEN WithVoice(u, Silent) ELSE session
           /\ group' = IF Cached THEN Removed(group, u) ELSE group
    /\ lock' = Free
    /\ UNCHANGED <<db, late>>
    /\ Straying({})

(* join_invitation brings u back. *)
Rejoin(u) ==
    /\ db.exists
    /\ u \notin db.members
    /\ db' = [db EXCEPT !.members = @ \cup {u}]
    /\ group' = IF Cached THEN [group EXCEPT !.members = @ \cup {u}] ELSE group
    /\ UNCHANGED <<session, late, lock>>
    /\ Straying({})

(* DeleteGroup takes no lock: the row goes, and then the cached group, if   *)
(* nobody has evicted it, with the voice of its members in it.             *)
DeleteGroupInDb ==
    /\ Acts(Owner)
    /\ db.exists
    /\ db' = [exists |-> FALSE, members |-> {}, channels |-> {}]
    /\ UNCHANGED <<group, session, late, lock, strays>>

DeleteGroupApply ==
    /\ ~db.exists
    /\ Cached
    /\ group' = NoGroup
    /\ session' = [u \in Users |-> IF u \in group.members /\ Spoken(u) # {}
                                   THEN [session[u] EXCEPT !.voice = Silent]
                                   ELSE session[u]]
    /\ UNCHANGED <<db, late, lock>>
    /\ Straying({})

------------------------------------------------------------------------------

Step ==
    \/ \E u \in Users :
           \/ Connect(u)
           \/ TaskEnds(u)
           \/ SpeakElsewhere(u)
           \/ RemoveInDb(u)
           \/ Rejoin(u)
           \/ Disconnect(u)
           \/ Subscribe(u)
           \/ Unsubscribe(u)
           \/ \E c \in Channels : \/ JoinVoice(u, c)
                                  \/ ExitVoice(u, c)
                                  \/ MoveToVoice(u, c)
                                  \/ JoinParty(u, c)
                                  \/ LeaveParty(u, c)
                                  \/ Watch(u, c)
                                  \/ JumpTo(u, c)
                                  \/ DeleteChannelInDb(u, c)
    \/ DeleteChannelApply
    \/ RemoveApply
    \/ DeleteGroupInDb
    \/ DeleteGroupApply

Next == Step /\ UNCHANGED scope

Spec == Init /\ [][Next]_vars

------------------------------------------------------------------------------

(* A channel of the group lists exactly the users whose session says they  *)
(* are in it, whatever connections close and members go, but for the users *)
(* whom one of these has torn apart: a JoinVoice handled after its session *)
(* has ended, an ExitVoice that names another channel or another group's,  *)
(* a direct JoinVoice that comes back from its write, a MoveToVoice, the   *)
(* eviction of the group, or the deletion of the channel.                  *)
VoiceAgrees == \A u \in Users \ strays : Agree(u)

(* A watch party goes on as long as somebody is in it, and its host is one *)
(* of those who are, whoever leaves, closes a connection or is removed     *)
(* (WatchPartyOpt::remove_user and its callers).                           *)
PartiesHaveHosts ==
    Cached => \A c \in Channels :
        group.party[c] # NoParty => group.party[c].host \in group.party[c].users

(* Nobody gets into the party of a channel they are not in but by leaving  *)
(* the channel through ExitVoice, which forgets the party (the callers of  *)
(* remove_user, JoinParty).                                                *)
Haunts(u, c) ==
    /\ Cached /\ group.party[c] # NoParty
    /\ u \in group.party[c].users \ group.users[c]
OnlyExitHaunts ==
    [][\A u \in Users, c \in Channels :
           Haunts(u, c)' => Haunts(u, c) \/ ExitVoice(u, c)]_vars

(* "User is already in a voice channel" (message/event.rs): nobody is in   *)
(* two.                                                                    *)
OneChannelAtATime == \A u \in Users : Cardinality(Listed(u)) <= 1
==============================================================================
