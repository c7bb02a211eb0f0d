---------------------------- MODULE GroupSettings ----------------------------
(***************************************************************************)
(* Permissions together with the order of the group's channels: both are   *)
(* changed under the one keyed lock of the group, first in the database    *)
(* and then in the cached Group, and they are loaded and evicted together. *)
(* The database keeps the channels numbered from 1 without gaps; the cache *)
(* computes its own numbers, and leaves the gap of a deleted channel.  As  *)
(* with roles, the position is an i16 in the database, and a channel that  *)
(* is updated need not be one of the group's.                              *)
(***************************************************************************)
EXTENDS Permissions

CONSTANTS Channels,   \* ids of channels, each given out once
          MaxPosition \* bound on the positions a client asks for

ASSUME GroupSettingsAssumption ==
    /\ IsFiniteSet(Channels)
    /\ MaxPosition \in Nat

VARIABLES
    order,       \* channels.position in the database
    cachedOrder, \* Channel.position in the cached Group, or NoGroup
    editing,     \* what the holder of the lock has done to the channels of the
                 \* database and will do to the cached ones, or Free
    given,       \* channels whose id has been given out
    drifted,     \* history: since the load a channel has been deleted, or the
                 \* database and the cache may have computed different positions
    far          \* history: a channel was moved behind the last one or to 0, or
                 \* by the events of another group than its own

channelVars == <<order, cachedOrder, editing, given, drifted, far>>
allVars == <<vars, channelVars>>

IsOrder(s, P) == \E S \in SUBSET Channels : s \in [S -> P]
CreateChannel == [kind : {"create"}, channel : Channels]
UpdateChannel == [kind : {"move"}, channel : Channels, pos : 0..MaxPosition]
DeleteChannel == [kind : {"delete"}, channel : Channels]
ChannelOp == CreateChannel \cup UpdateChannel \cup DeleteChannel

ASSUME ChannelValuesApart == Free \notin ChannelOp /\ ~IsOrder(NoGroup, Int)

OrderTypeOK ==
    /\ TypeOK
    /\ IsOrder(order, Small)
    /\ cachedOrder = NoGroup \/ IsOrder(cachedOrder, Nat)
    /\ editing \in ChannelOp \cup {Free}
    /\ DOMAIN order \subseteq given /\ given \subseteq Channels
    /\ drifted \in BOOLEAN /\ far \in BOOLEAN
    /\ cachedOrder = NoGroup <=> ~Cached
    /\ lock = Free \/ editing = Free

SettingsInit ==
    /\ Init
    /\ order = [c \in {} |-> 0]
    /\ cachedOrder = NoGroup
    /\ editing = Free
    /\ given = {}
    /\ drifted = FALSE /\ far = FALSE

------------------------------------------------------------------------------
(* create_channel, update_channel and delete_channel *)

(* update_channel: the channels in between make way, as roles do. *)
Shifted(s, c, new) ==
    [d \in DOMAIN s |-> IF d = c THEN new ELSE MadeWay(s[d], s[c], new)]

Added(s, c) ==
    [d \in DOMAIN s \cup {c} |-> IF d = c THEN Cardinality(DOMAIN s) + 1 ELSE s[d]]
Without(s, c) == [d \in DOMAIN s \ {c} |-> s[d]]

(* db::group::delete_channel moves the channels behind up. *)
Closed(s, c) ==
    [d \in DOMAIN s \ {c} |-> IF s[d] > s[c] THEN s[d] - 1 ELSE s[d]]

OrderAfter_LeavesGap(o) ==
    CASE o.kind = "create" -> Added(order, o.channel)
      [] o.kind = "move"   -> Shifted(order, o.channel, Cast(o.pos))
      [] o.kind = "delete" -> Without(order, o.channel)
OrderAfter(o) ==
    CASE o.kind = "create" -> Added(order, o.channel)
      [] o.kind = "move"   -> Shifted(order, o.channel, Cast(o.pos))
      [] o.kind = "delete" -> Closed(order, o.channel)

(* Group::delete_channel only removes it; Group::update_channel looks for  *)
(* the channel first.                                                      *)
CachedOrderAfter_InPlace(s, o) ==
    CASE o.kind = "create" -> Added(s, o.channel)
      [] o.kind = "move"   -> [d \in DOMAIN s |-> IF d = o.channel THEN o.pos ELSE s[d]]
      [] o.kind = "delete" -> Without(s, o.channel)
CachedOrderAfter(s, o) ==
    CASE o.kind = "create" -> Added(s, o.channel)
      [] o.kind = "move"   -> IF o.channel \in DOMAIN s
                              THEN Shifted(s, o.channel, o.pos) ELSE s
      [] o.kind = "delete" -> Without(s, o.channel)

------------------------------------------------------------------------------
(* Steps *)

Places(s) == 1..Cardinality(DOMAIN s)

PossibleEdit(o) ==
    IF o.kind = "create" THEN o.channel \notin given /\ Cardinality(DOMAIN order) < MaxSmall
    ELSE o.channel \in DOMAIN order

Edit(o) ==
    /\ lock = Free /\ editing = Free
    /\ PossibleEdit(o)
    /\ editing' = o
    /\ order' = OrderAfter(o)
    /\ given' = IF o.kind = "create" THEN given \cup {o.channel} ELSE given
    /\ far' = (far \/ IF o.kind = "move" THEN Cast(o.pos) \notin Places(order) ELSE FALSE)
    /\ drifted' = (drifted \/ IF o.kind = "move" THEN Cached /\ o.pos > MaxSmall ELSE FALSE)
    /\ UNCHANGED <<vars, cachedOrder>>

(* An event of this group moves another group's channel from old to pos,   *)
(* and the cache does not know the channel; or an event of another group   *)
(* moves a channel of this one, under its own lock and in its own cache.   *)
ForeignChannel(old, pos) ==
    /\ lock = Free /\ editing = Free
    /\ order' = [d \in DOMAIN order |-> MadeWay(order[d], old, Cast(pos))]
    /\ far' = TRUE /\ drifted' = (drifted \/ Cached)
    /\ UNCHANGED <<vars, cachedOrder, editing, given>>

OthersChannel(c, pos) ==
    /\ c \in DOMAIN order
    /\ order' = [order EXCEPT ![c] = Cast(pos)]
    /\ far' = TRUE /\ drifted' = (drifted \/ Cached)
    /\ UNCHANGED <<vars, cachedOrder, editing, given>>

(* If deleting the messages of a channel fails, the cache keeps it. *)
ApplyEdit ==
    /\ editing # Free
    /\ IF Cached
       THEN cachedOrder' \in {CachedOrderAfter(cachedOrder, editing)} \cup
                             {s \in {cachedOrder} : editing.kind = "delete"}
       ELSE UNCHANGED cachedOrder
    /\ drifted' = (drifted \/ (Cached /\ editing.kind = "delete"))
    /\ editing' = Free
    /\ UNCHANGED <<vars, order, given, far>>

(* A step of Permissions: it waits for the lock if it takes it, and loads  *)
(* and evicts the channels with the group.                                 *)
Takes ==
    \/ lock = Free /\ lock' # Free
    \/ ~Cached /\ Cached'

LoadedOrder == [c \in DOMAIN order |-> Widened(order[c])]

AlongsideOrder ==
    /\ Takes => editing = Free
    /\ cachedOrder' = IF ~Cached' THEN NoGroup
                      ELSE IF ~Cached THEN LoadedOrder ELSE cachedOrder
    /\ drifted' = /\ Cached'
                  /\ IF Cached THEN drifted ELSE \E c \in DOMAIN order : order[c] < 0
    /\ UNCHANGED <<order, editing, given, far>>

ChannelStep ==
    \/ \E o \in ChannelOp : Edit(o)
    \/ ApplyEdit
    \/ \E pos \in 0..MaxPosition : \/ \E old \in Small : ForeignChannel(old, pos)
                                   \/ \E c \in Channels : OthersChannel(c, pos)

SettingsNext ==
    \/ Next /\ AlongsideOrder
    \/ ChannelStep

SettingsSpec == SettingsInit /\ [][SettingsNext]_allVars

------------------------------------------------------------------------------
(* Correctness *)

(* The database numbers the channels of a group from 1 without a gap or a  *)
(* double, however they are created, moved and deleted: a new channel      *)
(* takes the number of channels as its position.  But nobody may ask for a *)
(* position behind the last one, or one that an i16 turns into 0 or less,  *)
(* and no event may move a channel of another group.                       *)
OrderIsDense ==
    far \/ {order[c] : c \in DOMAIN order} = Places(order)

(* The cached channels have the positions of the database's, although each *)
(* side computes its own, until a channel is deleted: then the cache keeps *)
(* the gap, and what it shows is not what the next load will.  Nor do they *)
(* agree after a position that an i16 does not hold, or one of a channel   *)
(* of another group, which only the database's channels make way for.      *)
OrdersAgree ==
    Cached /\ editing = Free /\ ~drifted => cachedOrder = order
==============================================================================
