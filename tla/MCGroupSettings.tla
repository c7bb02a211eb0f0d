--------------------------- MODULE MCGroupSettings ---------------------------
(* GroupSettings for TLC: a member with two connections, two roles, one    *)
(* permission next to ADMINISTRATOR, and three channels.  A behaviour is   *)
(* about one thing, and meets what is possible of it.                      *)
EXTENDS GroupSettings, TLC

CONSTANT Scopes
VARIABLE about

KindsOf == [roles     |-> {"create", "grant", "delete", "assign", "remove",
                           "set", "unset", "kick"},
            strays    |-> {"create", "grant", "delete", "assign", "remove", "kick"},
            clients   |-> {"everyone", "create", "grant", "delete", "assign", "remove"},
            positions |-> {"create", "move", "delete"},
            channels  |-> {}]

(* What moves a position between groups happens once in a behaviour, and   *)
(* so does a channel's move behind the last one, after which channels move *)
(* on only if no more than two have been created.  Everyone is an          *)
(* administrator only if the behaviour is about clients.                   *)
InScope ==
    /\ lock' # Free => lock'.kind \in KindsOf[about]
    /\ astray' # {} => about \in {"strays", "positions"}
    /\ doubled' => about = "positions"
    /\ doubled /\ db' # db => lock' # lock
    /\ about = "positions" => \A r \in Existing(db)' : db'.roles[r].perms = db'.everyone
    /\ about = "clients" => Cardinality(created') <= 1
    /\ given' # {} \/ far' => about = "channels"
    /\ far /\ order' # order =>
          /\ editing' # Free
          /\ editing'.kind = "move" => /\ Cardinality(given) <= 2
                                       /\ editing'.pos \in Places(order)
    /\ joining' # {} => about \in {"roles", "strays", "clients"}
    /\ Cardinality(Subscribed') > 1 \/ Subscribed' # Following' => about = "clients"

MCInit == /\ SettingsInit /\ about \in Scopes
          /\ about # "clients" => Admin \notin db.everyone
MCNext ==
    /\ \/ OwnStep /\ AlongsideOrder
       \/ about \in {"strays", "positions"} /\ OthersStep /\ AlongsideOrder
       \/ about = "channels" /\ ChannelStep
    /\ InScope
    /\ UNCHANGED about
MCSpec == MCInit /\ [][MCNext]_<<allVars, about>>

Symmetry == Permutations(Roles) \cup Permutations(Channels) \cup Permutations(Connections)
==============================================================================
