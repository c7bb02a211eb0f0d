------------------------------ MODULE VoiceProofs ------------------------------
(***************************************************************************)
(* Voice, for any set of users and channels: the channels and the sessions *)
(* agree on who is where but for the named hazards, a watch party has its  *)
(* host in it, and only ExitVoice leaves somebody in the party of a        *)
(* channel they have left.                                                 *)
(***************************************************************************)
EXTENDS Voice, TLAPS, WellFoundedInduction

(* A user who is being removed: the row is gone, the cache and the session *)
(* are told next.                                                          *)
Removing == IF lock # Free /\ lock.kind = "remove" THEN {lock.user} ELSE {}

(* Only members speak in a channel of the group, as far as the cache, or a *)
(* load, can tell.                                                         *)
VoicesBelong ==
    /\ Cached => \A u \in Users : Spoken(u) # {} => u \in group.members
    /\ Cached /\ db.exists => group.members \subseteq db.members \cup Removing
    /\ ~Cached /\ db.exists =>
           \A u \in Users : Spoken(u) # {} => u \in db.members \cup Removing

IInv == TypeOK /\ VoicesBelong /\ VoiceAgrees /\ PartiesHaveHosts


------------------------------------------------------------------------------
(* Parties and channels that are left *)

LEMMA MinIsThere ==
    ASSUME NEW S, S \subseteq Nat, S # {}
    PROVE  Min(S) \in S
  <1>1. PICK m \in S : \A y \in S : ~ (<<y, m>> \in OpToRel(<, Nat))
    BY NatLessThanWellFounded, WFMin, Zenon
  <1>2. \A y \in S : ~ (y < m)
    BY <1>1 DEF OpToRel
  <1>3. \E x \in S : \A y \in S : x =< y
    BY <1>2
  <1> QED
    BY <1>3 DEF Min

Hosted(p) == p # NoParty => p.host \in p.users

(* Who leaves a party is not in it, and no one else gets into it; the      *)
(* party ends with the last one and gets another host with the host.       *)
LEMMA PartyLeft ==
    ASSUME NEW p \in Party \cup {NoParty}, NEW u \in Users, NEW q, q = LeftParty(p, u)
    PROVE  /\ q \in Party \cup {NoParty}
           /\ Hosted(p) => Hosted(q)
           /\ q # NoParty => p # NoParty /\ q.users = p.users \ {u}
  <1>1. CASE p = NoParty \/ p.users \subseteq {u}
    BY <1>1 DEF LeftParty, Hosted
  <1>2. CASE p # NoParty /\ ~(p.users \subseteq {u})
    <2> DEFINE rest == p.users \ {u}
               host == IF p.host = u THEN Min(rest) ELSE p.host
    <2>1. p \in Party /\ p.users \subseteq Users
      BY <1>2 DEF Party
    <2>2. rest # {} /\ rest \subseteq Nat
      BY <1>2, <2>1, VoiceAssumption
    <2>3. Min(rest) \in rest
      BY <2>2, MinIsThere
    <2>4. q = [p EXCEPT !.users = rest, !.host = host]
      BY <1>2 DEF LeftParty
    <2>5. host \in Users /\ (p.host \in p.users => host \in rest)
      BY <2>1, <2>3 DEF Party
    <2> HIDE DEF rest, host
    <2>6. rest \subseteq Users
      BY <2>1 DEF rest
    <2>7. q \in Party /\ q.users = rest /\ q.host = host
      BY <2>1, <2>4, <2>5, <2>6 DEF Party
    <2> QED
      BY <1>2, <2>5, <2>7 DEF Hosted, rest
  <1> QED
    BY <1>1, <1>2

LEMMA ChannelsLeft ==
    ASSUME group \in Group, NEW u \in Users, NEW cs, NEW h, h = LeftChannels(group, u, cs)
    PROVE  /\ h \in Group
           /\ h.members = group.members /\ h.channels = group.channels
           /\ \A c \in Channels :
                  /\ h.users[c] = IF c \in cs THEN group.users[c] \ {u} ELSE group.users[c]
                  /\ h.party[c] = IF c \in cs THEN LeftParty(group.party[c], u)
                                  ELSE group.party[c]
  <1> DEFINE us == [c \in Channels |->
                       IF c \in cs THEN group.users[c] \ {u} ELSE group.users[c]]
             ps == [c \in Channels |->
                       IF c \in cs THEN LeftParty(group.party[c], u) ELSE group.party[c]]
  <1>1. us \in [Channels -> SUBSET Users]
    BY DEF Group
  <1>2. ps \in [Channels -> Party \cup {NoParty}]
    <2>1. \A c \in Channels : group.party[c] \in Party \cup {NoParty}
      BY DEF Group
    <2>2. \A c \in Channels : LeftParty(group.party[c], u) \in Party \cup {NoParty}
      BY <2>1, PartyLeft
    <2> QED
      BY <2>1, <2>2
  <1>3. h = [group EXCEPT !.users = us, !.party = ps]
    BY DEF LeftChannels
  <1> HIDE DEF us, ps
  <1>4. /\ h \in Group /\ h.users = us /\ h.party = ps
        /\ h.members = group.members /\ h.channels = group.channels
    BY <1>1, <1>2, <1>3 DEF Group
  <1> QED
    BY <1>4 DEF us, ps

(* h is the cached group after u has left the channels cs of it. *)
LeftGroup(h, u, cs) ==
    /\ h \in Group
    /\ h.members = group.members /\ h.channels = group.channels
    /\ \A c \in Channels :
           /\ h.users[c] = IF c \in cs THEN group.users[c] \ {u} ELSE group.users[c]
           /\ Hosted(h.party[c])
           /\ h.party[c] # NoParty =>
                  /\ group.party[c] # NoParty
                  /\ h.party[c].users = IF c \in cs THEN group.party[c].users \ {u}
                                        ELSE group.party[c].users
    /\ \A c \in Channels \ h.channels : h.users[c] = {} /\ h.party[c] = NoParty

LEMMA GroupLeft ==
    ASSUME TypeOK, PartiesHaveHosts, Cached, NEW u \in Users, NEW cs,
           NEW h, h = LeftChannels(group, u, cs)
    PROVE  LeftGroup(h, u, cs)
  <1>1. /\ group \in Group
        /\ \A c \in Channels : Hosted(group.party[c])
        /\ \A c \in Channels \ group.channels : group.users[c] = {} /\ group.party[c] = NoParty
    BY DEF TypeOK, PartiesHaveHosts, Cached, Hosted
  <1>2. \A c \in Channels : group.party[c] \in Party \cup {NoParty}
    BY <1>1 DEF Group
  <1>3. /\ h \in Group /\ h.members = group.members /\ h.channels = group.channels
        /\ \A c \in Channels :
               /\ h.users[c] = IF c \in cs THEN group.users[c] \ {u} ELSE group.users[c]
               /\ h.party[c] = IF c \in cs THEN LeftParty(group.party[c], u)
                               ELSE group.party[c]
    BY <1>1, ChannelsLeft
  <1>4. ASSUME NEW c \in Channels
        PROVE  /\ Hosted(h.party[c])
               /\ h.party[c] # NoParty =>
                      /\ group.party[c] # NoParty
                      /\ h.party[c].users = IF c \in cs THEN group.party[c].users \ {u}
                                            ELSE group.party[c].users
    <2>1. CASE c \in cs
      <3>1. h.party[c] = LeftParty(group.party[c], u)
        BY <1>3, <2>1
      <3>2. /\ Hosted(group.party[c]) => Hosted(h.party[c])
            /\ h.party[c] # NoParty =>
                   group.party[c] # NoParty /\ h.party[c].users = group.party[c].users \ {u}
        BY <1>2, <3>1, PartyLeft
      <3> QED
        BY <1>1, <2>1, <3>2
    <2>2. CASE c \notin cs
      BY <1>1, <1>3, <2>2
    <2> QED
      BY <2>1, <2>2
  <1>5. \A c \in Channels \ h.channels : h.users[c] = {} /\ h.party[c] = NoParty
    BY <1>1, <1>3, <1>4
  <1> QED
    BY <1>3, <1>4, <1>5 DEF LeftGroup

(* A step that changes one party and nothing else: it has a host in it,    *)
(* and only users of its channel are new in it.                            *)
PartyChanges(c) ==
    /\ Cached
    /\ \E p \in Party \cup {NoParty} :
           /\ group' = [group EXCEPT !.party[c] = p]
           /\ Hosted(p)
           /\ p # NoParty =>
                  p.users \subseteq group.users[c] \cup
                      (IF group.party[c] = NoParty THEN {} ELSE group.party[c].users)
    /\ c \in group.channels
    /\ UNCHANGED <<db, session, late, lock, strays>>

LEMMA PartyEffect ==
    ASSUME TypeOK, PartiesHaveHosts, NEW u \in Users, NEW c \in Channels,
           JoinParty(u, c) \/ LeaveParty(u, c) \/ Watch(u, c) \/ JumpTo(u, c)
    PROVE  PartyChanges(c)
  <1> DEFINE p == group.party[c]
  <1>1. /\ Cached /\ group.party[c] \in Party \cup {NoParty}
        /\ Hosted(p) /\ group.users[c] \subseteq Users
    BY DEF TypeOK, PartiesHaveHosts, Hosted, Cached, Group, JoinParty, LeaveParty, Watch,
       JumpTo
  <1>2. ASSUME NEW q \in Party \cup {NoParty}, PartyEvent(u, c, q), Hosted(q),
               q # NoParty =>
                   q.users \subseteq group.users[c] \cup
                       (IF p = NoParty THEN {} ELSE p.users)
        PROVE  PartyChanges(c)
    BY <1>1, <1>2 DEF PartyEvent, PartyChanges
  <1> HIDE DEF p
  <1>3. CASE JoinParty(u, c)
    <2> DEFINE q == IF p = NoParty THEN [host |-> u, users |-> {u}, shows |-> "nothing"]
                    ELSE [p EXCEPT !.users = @ \cup {u}]
    <2>1. q \in Party /\ Hosted(q)
      BY <1>1 DEF Party, Hosted, p
    <2>2. q.users \subseteq group.users[c] \cup (IF p = NoParty THEN {} ELSE p.users)
      BY <1>1, <1>3 DEF JoinParty, Party, p
    <2>3. PartyEvent(u, c, q)
      BY <1>3 DEF JoinParty, p
    <2> QED
      BY <1>2, <2>1, <2>2, <2>3
  <1>4. CASE LeaveParty(u, c)
    <2>1. PICK q : q = LeftParty(p, u)
      OBVIOUS
    <2>2. PartyEvent(u, c, q)
      BY <1>4, <2>1 DEF LeaveParty, p
    <2>3. /\ q \in Party \cup {NoParty} /\ Hosted(q)
          /\ q # NoParty => p # NoParty /\ q.users = p.users \ {u}
      BY <1>1, <2>1, PartyLeft DEF p
    <2> QED
      BY <1>2, <2>2, <2>3
  <1>5. CASE Watch(u, c) \/ JumpTo(u, c)
    <2>1. PICK s \in {"nothing", "paused", "playing"} :
              p # NoParty /\ PartyEvent(u, c, [p EXCEPT !.shows = s])
      BY <1>5 DEF Watch, JumpTo, p
    <2>2. [p EXCEPT !.shows = s] \in Party /\ Hosted([p EXCEPT !.shows = s])
          /\ [p EXCEPT !.shows = s].users = p.users
      BY <1>1, <2>1 DEF Party, Hosted, p
    <2> QED
      BY <1>2, <2>1, <2>2
  <1> QED
    BY <1>3, <1>4, <1>5

------------------------------------------------------------------------------
(* The beginning *)

LEMMA InitIInv == Init => IInv
  <1> SUFFICES ASSUME Init PROVE IInv
    OBVIOUS
  <1>1. TypeOK
    BY VoiceAssumption DEF Init, TypeOK
  <1>2. \A u \in Users : Spoken(u) = {} /\ Listed(u) = {}
    BY DEF Init, Spoken, Listed, Online, Cached
  <1> QED
    BY <1>1, <1>2 DEF Init, IInv, VoicesBelong, VoiceAgrees, Agree, PartiesHaveHosts, Cached

------------------------------------------------------------------------------
(* Sessions *)

(* A session that gets another voice; nobody else's changes. *)
LEMMA VoiceSet ==
    ASSUME TypeOK, NEW u \in Users, NEW v \in Channels \cup {Silent, Elsewhere},
           session' = WithVoice(u, v)
    PROVE  /\ session' \in [Users -> Session \cup {NoSession}]
           /\ \A w \in Users : Spoken(w)' = IF w = u /\ Online(u) THEN {v} \cap Channels
                                            ELSE Spoken(w)
  <1>1. session \in [Users -> Session \cup {NoSession}]
    BY DEF TypeOK
  <1>2. CASE ~Online(u)
    BY <1>1, <1>2 DEF WithVoice, Spoken, Online
  <1>3. CASE Online(u)
    <2>1. session' = [session EXCEPT ![u] = [session[u] EXCEPT !.voice = v]]
      BY <1>3 DEF WithVoice
    <2>2. /\ [session[u] EXCEPT !.voice = v] \in Session
          /\ [session[u] EXCEPT !.voice = v].voice = v
      BY <1>1, <1>3 DEF Session, Online
    <2>3. /\ session' \in [Users -> Session \cup {NoSession}]
          /\ session'[u].voice = v /\ session'[u] # NoSession
          /\ \A w \in Users \ {u} : session'[w] = session[w]
      BY <1>1, <2>1, <2>2, ValuesApart
    <2>4. Spoken(u)' = {v} \cap Channels
      BY <2>3 DEF Spoken, Online
    <2>5. \A w \in Users \ {u} : Spoken(w)' = Spoken(w)
      BY <2>3 DEF Spoken, Online
    <2> QED
      BY <1>3, <2>3, <2>4, <2>5
  <1> QED
    BY <1>2, <1>3

(* A session that begins, or gets another connection. *)
LEMMA ConnectEffect ==
    ASSUME TypeOK, NEW u \in Users, Connect(u)
    PROVE  /\ session' \in [Users -> Session \cup {NoSession}]
           /\ \A w \in Users : Spoken(w)' = Spoken(w)
  <1>1. session \in [Users -> Session \cup {NoSession}]
    BY DEF TypeOK
  <1>2. CASE Online(u)
    <2> DEFINE s == [conns |-> session[u].conns + 1, voice |-> session[u].voice]
    <2>1. session' = [session EXCEPT ![u] = s]
      BY <1>2 DEF Connect
    <2>9. session[u].conns = 1
      BY <1>2 DEF Connect
    <2>2. s \in Session /\ s.voice = session[u].voice
      BY <1>1, <1>2, <2>9 DEF Session, Online
    <2> HIDE DEF s
    <2>3. /\ session' \in [Users -> Session \cup {NoSession}]
          /\ session'[u] # NoSession /\ session'[u].voice = session[u].voice
          /\ \A w \in Users \ {u} : session'[w] = session[w]
      BY <1>1, <2>1, <2>2, ValuesApart
    <2>4. \A w \in Users : Spoken(w)' = Spoken(w)
      BY <1>2, <2>3 DEF Spoken, Online
    <2> QED
      BY <2>3, <2>4
  <1>3. CASE ~Online(u)
    <2> DEFINE s == [conns |-> 1, voice |-> Silent]
    <2>1. session' = [session EXCEPT ![u] = s]
      BY <1>3 DEF Connect
    <2>2. s \in Session /\ s.voice = Silent
      BY DEF Session
    <2> HIDE DEF s
    <2>3. /\ session' \in [Users -> Session \cup {NoSession}]
          /\ session'[u].voice = Silent
          /\ \A w \in Users \ {u} : session'[w] = session[w]
      BY <1>1, <2>1, <2>2
    <2>4. \A w \in Users : Spoken(w)' = Spoken(w)
      BY <1>3, <2>3, VoiceAssumption DEF Spoken, Online
    <2> QED
      BY <2>3, <2>4
  <1> QED
    BY <1>2, <1>3

(* A connection that closes: the session has no voice then. *)
LEMMA DisconnectEffect ==
    ASSUME TypeOK, NEW u \in Users, Disconnect(u)
    PROVE  /\ session' \in [Users -> Session \cup {NoSession}]
           /\ \A w \in Users : Spoken(w)' = IF w = u THEN {} ELSE Spoken(w)
           /\ IF Cached /\ session[u].voice \in group.channels
              THEN group' = LeftChannels(group, u, {session[u].voice})
              ELSE group' = group
  <1>1. session \in [Users -> Session \cup {NoSession}] /\ session[u] \in Session
    BY DEF TypeOK, Disconnect, Online
  <1>2. PICK s \in Session \cup {NoSession} :
            session' = [session EXCEPT ![u] = s] /\ (s # NoSession => s.voice = Silent)
    <2>1. CASE session[u].conns = 1
      BY <2>1 DEF Disconnect
    <2>2. CASE session[u].conns # 1
      <3> DEFINE s == [conns |-> session[u].conns - 1, voice |-> Silent]
      <3>1. s \in Session /\ s.voice = Silent
        BY <1>1, <2>2 DEF Session
      <3>2. session' = [session EXCEPT ![u] = s]
        BY <2>2 DEF Disconnect
      <3> QED
        BY <3>1, <3>2
    <2> QED
      BY <2>1, <2>2
  <1>3. /\ session' \in [Users -> Session \cup {NoSession}]
        /\ session'[u] = s
        /\ \A w \in Users \ {u} : session'[w] = session[w]
    BY <1>1, <1>2
  <1>4. \A w \in Users : Spoken(w)' = IF w = u THEN {} ELSE Spoken(w)
    BY <1>2, <1>3, VoiceAssumption DEF Spoken, Online
  <1>5. IF Cached /\ session[u].voice \in group.channels
        THEN group' = LeftChannels(group, u, {session[u].voice})
        ELSE group' = group
    BY DEF Disconnect, GroupAfter
  <1> QED
    BY <1>3, <1>4, <1>5

------------------------------------------------------------------------------
(* The group *)

(* One channel gets other users. *)
LEMMA UsersSet ==
    ASSUME TypeOK, Cached, NEW c \in group.channels, NEW us \in SUBSET Users,
           group' = [group EXCEPT !.users[c] = us]
    PROVE  /\ Cached' /\ group'.channels = group.channels
           /\ \A w \in Users : Listed(w)' =
                  {d \in group.channels : w \in IF d = c THEN us ELSE group.users[d]}
  <1>1. group \in Group /\ c \in Channels
    BY DEF TypeOK, Cached, Group
  <1> DEFINE all == [group.users EXCEPT ![c] = us]
  <1>2. all \in [Channels -> SUBSET Users]
    BY <1>1 DEF Group
  <1>3. group' = [group EXCEPT !.users = all]
    BY <1>1 DEF Group
  <1>4. \A d \in Channels : all[d] = IF d = c THEN us ELSE group.users[d]
    BY <1>1 DEF Group
  <1> HIDE DEF all
  <1>5. group' \in Group /\ group'.channels = group.channels /\ group'.users = all
    BY <1>1, <1>2, <1>3 DEF Group
  <1>6. Cached'
    BY <1>5, ValuesApart DEF Cached
  <1>7. group.channels \subseteq Channels
    BY <1>1 DEF Group
  <1>8. ASSUME NEW w \in Users
        PROVE  Listed(w)' =
                   {d \in group.channels : w \in IF d = c THEN us ELSE group.users[d]}
    BY <1>4, <1>5, <1>6, <1>7 DEF Listed
  <1> QED
    BY <1>5, <1>6, <1>8

(* A subscription, which may load the group. *)
LEMMA SubscribeEffect ==
    ASSUME TypeOK, NEW u \in Users, Subscribe(u)
    PROVE  /\ Cached' /\ group' \in Group /\ UNCHANGED <<db, session, lock>>
           /\ IF Cached
              THEN /\ group'.members = group.members /\ group'.channels = group.channels
                   /\ \A c \in Channels : /\ group'.users[c] = group.users[c]
                                          /\ group'.party[c] = group.party[c]
              ELSE /\ lock = Free /\ db.exists
                   /\ group'.members = db.members /\ group'.channels = db.channels
                   /\ \A c \in Channels : group'.users[c] = {} /\ group'.party[c] = NoParty
  <1> DEFINE g == IF Cached THEN group ELSE EmptyChannels
  <1>1. g \in Group
    BY DEF EmptyChannels, TypeOK, Group, Cached
  <1>2. group' = IF Online(u) /\ u \in g.members THEN [g EXCEPT !.subs = @ \cup {u}] ELSE g
    BY DEF Subscribe
  <1>3. IF Cached THEN g = group ELSE lock = Free /\ db.exists /\ g = EmptyChannels
    BY DEF Subscribe
  <1> HIDE DEF g
  <1>4. /\ group' \in Group /\ group'.members = g.members
        /\ group'.channels = g.channels /\ group'.users = g.users /\ group'.party = g.party
    BY <1>1, <1>2 DEF Group
  <1>5. Cached' /\ UNCHANGED <<db, session, lock>>
    BY <1>4, ValuesApart DEF Cached, Subscribe
  <1> QED
    BY <1>3, <1>4, <1>5 DEF EmptyChannels

(* A channel that goes, unless deleting its messages has failed. *)
LEMMA ChannelDeleted ==
    ASSUME TypeOK, DeleteChannelApply
    PROVE  /\ lock.channel \in Channels /\ lock.kind = "delete"
           /\ lock' = Free /\ UNCHANGED <<db, session>>
           /\ \/ group' = group
              \/ /\ Cached /\ Cached' /\ group' \in Group
                 /\ group'.members = group.members
                 /\ group'.channels = group.channels \ {lock.channel}
                 /\ \A c \in Channels \ {lock.channel} :
                        /\ group'.users[c] = group.users[c]
                        /\ group'.party[c] = group.party[c]
                 /\ group'.users[lock.channel] = {} /\ group'.party[lock.channel] = NoParty
  <1>1. /\ lock.channel \in Channels /\ lock.kind = "delete"
        /\ lock' = Free /\ UNCHANGED <<db, session>>
    BY DEF DeleteChannelApply, TypeOK
  <1> DEFINE us == [group.users EXCEPT ![lock.channel] = {}]
             ps == [group.party EXCEPT ![lock.channel] = NoParty]
             cs == group.channels \ {lock.channel}
  <1>2. ASSUME Cached, group' = [group EXCEPT !.channels = @ \ {lock.channel},
                                              !.users[lock.channel] = {},
                                              !.party[lock.channel] = NoParty]
        PROVE  /\ group' \in Group /\ group'.members = group.members
               /\ group'.channels = cs /\ group'.users = us /\ group'.party = ps
    <2>1. /\ group \in Group /\ us \in [Channels -> SUBSET Users] /\ cs \subseteq Channels
          /\ ps \in [Channels -> Party \cup {NoParty}]
      BY <1>1, <1>2 DEF TypeOK, Group, Cached
    <2>2. group' = [group EXCEPT !.channels = cs, !.users = us, !.party = ps]
      BY <1>2, <2>1 DEF Group
    <2> HIDE DEF us, ps, cs
    <2> QED
      BY <2>1, <2>2 DEF Group
  <1>3. ASSUME Cached
        PROVE  /\ \A c \in Channels \ {lock.channel} :
                      us[c] = group.users[c] /\ ps[c] = group.party[c]
               /\ us[lock.channel] = {} /\ ps[lock.channel] = NoParty
    BY <1>1, <1>3 DEF TypeOK, Group, Cached
  <1>4. \/ group' = group
        \/ /\ Cached
           /\ group' = [group EXCEPT !.channels = @ \ {lock.channel},
                                     !.users[lock.channel] = {},
                                     !.party[lock.channel] = NoParty]
    BY DEF DeleteChannelApply
  <1> HIDE DEF us, ps
  <1> QED
    BY <1>1, <1>2, <1>3, <1>4, ValuesApart DEF Cached

(* A member who goes, from the channels, their parties, and the voice of   *)
(* the session.                                                            *)
LEMMA MemberRemoved ==
    ASSUME TypeOK, PartiesHaveHosts, RemoveApply
    PROVE  \E u \in Users :
              /\ lock # Free /\ lock.kind = "remove" /\ lock.user = u
              /\ lock' = Free /\ UNCHANGED <<db, late>>
              /\ session' \in [Users -> Session \cup {NoSession}]
              /\ \A w \in Users : Spoken(w)' = IF w = u THEN {} ELSE Spoken(w)
              /\ ~Cached => group' = group
              /\ Cached => \E h :
                     /\ LeftGroup(h, u, group.channels)
                     /\ group' \in Group /\ group'.members = h.members \ {u}
                     /\ group'.channels = h.channels
                     /\ group'.users = h.users /\ group'.party = h.party
  <1>1. PICK u \in Users : lock # Free /\ lock.kind = "remove" /\ lock.user = u
    BY DEF RemoveApply, TypeOK
  <1>2. /\ lock' = Free /\ UNCHANGED <<db, late>>
        /\ session' = IF Spoken(u) # {} THEN WithVoice(u, Silent) ELSE session
        /\ group' = IF Cached THEN Removed(group, u) ELSE group
    BY <1>1 DEF RemoveApply
  <1>3. /\ session' \in [Users -> Session \cup {NoSession}]
        /\ \A w \in Users : Spoken(w)' = IF w = u THEN {} ELSE Spoken(w)
    <2>1. CASE Spoken(u) # {}
      <3>1. /\ session' \in [Users -> Session \cup {NoSession}]
            /\ \A w \in Users : Spoken(w)' = IF w = u /\ Online(u) THEN {Silent} \cap Channels
                                             ELSE Spoken(w)
        BY <1>2, <2>1, VoiceSet
      <3>2. Online(u) /\ {Silent} \cap Channels = {}
        BY <2>1, VoiceAssumption DEF Spoken
      <3> QED
        BY <3>1, <3>2
    <2>2. CASE Spoken(u) = {}
      BY <1>2, <2>2 DEF TypeOK, Spoken, Online
    <2> QED
      BY <2>1, <2>2
  <1>4. PICK h : h = LeftChannels(group, u, group.channels)
    OBVIOUS
  <1>5. ASSUME Cached
        PROVE  LeftGroup(h, u, group.channels)
    BY <1>4, <1>5, GroupLeft
  <1>6. ASSUME Cached
        PROVE  /\ group' \in Group /\ group'.members = h.members \ {u}
               /\ group'.channels = h.channels
               /\ group'.users = h.users /\ group'.party = h.party
    <2>1. h \in Group
      BY <1>5, <1>6 DEF LeftGroup
    <2>2. group' = [h EXCEPT !.members = h.members \ {u}, !.subs = h.subs \ {u}]
      BY <1>2, <1>4, <1>6 DEF Removed
    <2> QED
      BY <2>1, <2>2 DEF Group
  <1> QED
    BY <1>1, <1>2, <1>3, <1>5, <1>6

OnlyExit ==
    \A v \in Users, d \in Channels : Haunts(v, d)' => Haunts(v, d) \/ ExitVoice(v, d)

------------------------------------------------------------------------------
(* What no step disturbs *)

(* The group, the sessions and the lock stay well formed. *)
LEMMA TypesKept ==
    ASSUME TypeOK, PartiesHaveHosts, Step
    PROVE  TypeOK'
  <1>20. \A u \in Users, c \in Channels :
            JoinParty(u, c) \/ LeaveParty(u, c) \/ Watch(u, c) \/ JumpTo(u, c) =>
                PartyChanges(c)
    BY PartyEffect
  <1> USE ValuesApart DEF TypeOK, Session, Group, Cached, Online, Acts, Straying,
     WithVoice, Restless
  <1>1. ASSUME NEW u \in Users, Connect(u)
        PROVE  TypeOK'
    <2>1. session' \in [Users -> Session \cup {NoSession}]
      BY <1>1, ConnectEffect
    <2> HIDE DEF Session, Group
    <2> QED
      BY <1>1, <2>1 DEF Connect
  <1>2. ASSUME NEW u \in Users, TaskEnds(u)
        PROVE  TypeOK'
    BY <1>2 DEF TaskEnds
  <1>3. ASSUME NEW u \in Users, SpeakElsewhere(u)
        PROVE  TypeOK'
    BY <1>3 DEF SpeakElsewhere
  <1>4. ASSUME NEW u \in Users, RemoveInDb(u)
        PROVE  TypeOK'
    BY <1>4 DEF RemoveInDb
  <1>5. ASSUME NEW u \in Users, Rejoin(u)
        PROVE  TypeOK'
    BY <1>5 DEF Rejoin
  <1>6. ASSUME NEW u \in Users, Disconnect(u)
        PROVE  TypeOK'
    <2>1. /\ session' \in [Users -> Session \cup {NoSession}]
          /\ \/ group' = group
             \/ Cached /\ group' = LeftChannels(group, u, {session[u].voice})
      BY <1>6, DisconnectEffect
    <2>2. UNCHANGED <<db, lock>> /\ late' \subseteq Users /\ strays' \subseteq Users
      BY <1>6 DEF Disconnect
    <2> HIDE DEF Session, Group, TypeOK, Cached
    <2>3. ASSUME Cached, NEW h, h = LeftChannels(group, u, {session[u].voice})
          PROVE  LeftGroup(h, u, {session[u].voice})
      BY <2>3, GroupLeft
    <2> QED
      BY <2>1, <2>2, <2>3 DEF TypeOK, LeftGroup
  <1>7. ASSUME NEW u \in Users, Subscribe(u)
        PROVE  TypeOK'
    <2>1. strays' \subseteq Users /\ late' = late
      BY <1>7 DEF Subscribe
    <2> HIDE DEF Session, Group
    <2> QED
      BY <1>7, <2>1, SubscribeEffect
  <1>8. ASSUME NEW u \in Users, Unsubscribe(u)
        PROVE  TypeOK'
    BY <1>8 DEF Unsubscribe
  <1>9. ASSUME NEW u \in Users, NEW c \in Channels, JoinVoice(u, c)
        PROVE  TypeOK'
    BY <1>9 DEF JoinVoice
  <1>10. ASSUME NEW u \in Users, NEW c \in Channels, ExitVoice(u, c)
        PROVE  TypeOK'
    BY <1>10 DEF ExitVoice
  <1>11. ASSUME NEW u \in Users, NEW c \in Channels, MoveToVoice(u, c)
        PROVE  TypeOK'
    BY <1>11 DEF MoveToVoice
  <1>12. ASSUME NEW c \in Channels, PartyChanges(c)
        PROVE  TypeOK'
    BY <1>12 DEF PartyChanges
  <1>13. ASSUME NEW u \in Users, NEW c \in Channels, DeleteChannelInDb(u, c)
        PROVE  TypeOK'
    BY <1>13 DEF DeleteChannelInDb
  <1>14. CASE DeleteChannelApply
    <2>1. strays' \subseteq Users /\ late' = late
      BY <1>14 DEF DeleteChannelApply
    <2> HIDE DEF Session, Group
    <2> QED
      BY <1>14, <2>1, ChannelDeleted
  <1>15. CASE RemoveApply
    <2>1. strays' \subseteq Users
      BY <1>15 DEF RemoveApply
    <2> HIDE DEF Session, Group
    <2> QED
      BY <1>15, <2>1, MemberRemoved DEF LeftGroup
  <1>16. CASE DeleteGroupInDb
    BY <1>16 DEF DeleteGroupInDb
  <1>17. CASE DeleteGroupApply
    <2>1. /\ group' = NoGroup /\ UNCHANGED <<db, late, lock>> /\ strays' \subseteq Users
          /\ session' = [w \in Users |-> IF w \in group.members /\ Spoken(w) # {}
                                         THEN [session[w] EXCEPT !.voice = Silent]
                                         ELSE session[w]]
      BY <1>17 DEF DeleteGroupApply
    <2>2. \A w \in Users : Spoken(w) # {} => session[w] \in Session
      BY DEF Spoken
    <2>3. \A w \in Users : session'[w] \in Session \cup {NoSession}
      BY <2>1, <2>2
    <2> QED
      BY <2>1, <2>3
  <1> HIDE DEF TypeOK, Session, Group, Cached, Online, Acts, Straying, WithVoice, Restless
  <1> QED
    BY <1>20, <1>1, <1>2, <1>3, <1>4, <1>5, <1>6, <1>7, <1>8, <1>9, <1>10, <1>11, <1>12,
       <1>13, <1>14, <1>15, <1>16, <1>17 DEF Step

(* Channel and session change together, but for the named hazards, and a   *)
(* removal takes the voice, too.                                           *)
LEMMA AgreementKept ==
    ASSUME TypeOK, VoicesBelong, VoiceAgrees, PartiesHaveHosts, Step
    PROVE  VoicesBelong' /\ VoiceAgrees'
  <1>20. \A u \in Users, c \in Channels :
            JoinParty(u, c) \/ LeaveParty(u, c) \/ Watch(u, c) \/ JumpTo(u, c) =>
                PartyChanges(c)
    BY PartyEffect
  <1> USE ValuesApart
  <1>1. ASSUME NEW u \in Users, Connect(u)
        PROVE  VoicesBelong' /\ VoiceAgrees'
    <2>1. \A w \in Users : Listed(w)' = Listed(w)
      BY <1>1 DEF Connect, TypeOK, Session, Group, Cached, Online, WithVoice, Listed
    <2>2. \A w \in Users : Spoken(w)' = Spoken(w)
      BY <1>1, ConnectEffect
    <2>3. Straying({})
      BY <1>1 DEF Connect
    <2>4. VoiceAgrees'
      BY <2>1, <2>2, <2>3 DEF VoiceAgrees, Agree, Straying
    <2>5. VoicesBelong'
      BY <1>1, <2>2 DEF Connect, VoicesBelong, Cached, Removing, TypeOK, Group
    <2> QED
      BY <2>4, <2>5
  <1>2. ASSUME NEW u \in Users, TaskEnds(u)
        PROVE  VoicesBelong' /\ VoiceAgrees'
    <2>1. \A w \in Users : Listed(w)' = Listed(w)
      BY <1>2 DEF TaskEnds, TypeOK, Session, Group, Cached, Online, WithVoice, Listed
    <2>2. \A w \in Users : Spoken(w)' = Spoken(w)
      BY <1>2 DEF TaskEnds, TypeOK, Session, Group, Cached, Online, WithVoice, Spoken
    <2>3. strays' = strays
      BY <1>2 DEF TaskEnds
    <2>4. VoiceAgrees'
      BY <2>1, <2>2, <2>3 DEF VoiceAgrees, Agree
    <2>5. VoicesBelong'
      BY <1>2, <2>2 DEF TaskEnds, VoicesBelong, Cached, Removing, TypeOK, Group
    <2> QED
      BY <2>4, <2>5
  <1>3. ASSUME NEW u \in Users, SpeakElsewhere(u)
        PROVE  VoicesBelong' /\ VoiceAgrees'
    <2>1. \A w \in Users : Listed(w)' = Listed(w)
      BY <1>3 DEF SpeakElsewhere, TypeOK, Session, Group, Cached, Online, WithVoice, Listed
    <2>2. \A w \in Users : Spoken(w)' = IF w = u THEN {} ELSE Spoken(w)
      <3>1. PICK v \in {Silent, Elsewhere} : session' = WithVoice(u, v)
        BY <1>3 DEF SpeakElsewhere
      <3>2. Online(u) /\ {v} \cap Channels = {}
        BY <1>3, VoiceAssumption DEF SpeakElsewhere
      <3> QED
        BY <3>1, <3>2, VoiceSet
    <2>3. Straying(IF Spoken(u) = {} THEN {} ELSE {u})
      BY <1>3 DEF SpeakElsewhere
    <2>4. VoiceAgrees'
      BY <2>1, <2>2, <2>3 DEF VoiceAgrees, Agree, Straying
    <2>5. VoicesBelong'
      BY <1>3, <2>2 DEF SpeakElsewhere, VoicesBelong, Cached, Removing, TypeOK, Group
    <2> QED
      BY <2>4, <2>5
  <1>4. ASSUME NEW u \in Users, RemoveInDb(u)
        PROVE  VoicesBelong' /\ VoiceAgrees'
    <2>1. \A w \in Users : Listed(w)' = Listed(w)
      BY <1>4 DEF RemoveInDb, TypeOK, Session, Group, Cached, Online, WithVoice, Listed
    <2>2. \A w \in Users : Spoken(w)' = Spoken(w)
      BY <1>4 DEF RemoveInDb, TypeOK, Session, Group, Cached, Online, WithVoice, Spoken
    <2>3. strays' = strays
      BY <1>4 DEF RemoveInDb
    <2>4. VoiceAgrees'
      BY <2>1, <2>2, <2>3 DEF VoiceAgrees, Agree
    <2>5. VoicesBelong'
      BY <1>4, <2>2 DEF RemoveInDb, VoicesBelong, Cached, Removing, TypeOK, Group
    <2> QED
      BY <2>4, <2>5
  <1>5. ASSUME NEW u \in Users, Rejoin(u)
        PROVE  VoicesBelong' /\ VoiceAgrees'
    <2>1. \A w \in Users : Listed(w)' = Listed(w)
      BY <1>5 DEF Rejoin, TypeOK, Session, Group, Cached, Online, WithVoice, Listed
    <2>2. \A w \in Users : Spoken(w)' = Spoken(w)
      BY <1>5 DEF Rejoin, TypeOK, Session, Group, Cached, Online, WithVoice, Spoken
    <2>3. Straying({})
      BY <1>5 DEF Rejoin
    <2>4. VoiceAgrees'
      BY <2>1, <2>2, <2>3 DEF VoiceAgrees, Agree, Straying
    <2>5. VoicesBelong'
      BY <1>5, <2>2 DEF Rejoin, VoicesBelong, Cached, Removing, TypeOK, Group
    <2> QED
      BY <2>4, <2>5
  <1>6. ASSUME NEW u \in Users, Disconnect(u)
        PROVE  VoicesBelong' /\ VoiceAgrees'
    <2>1. \A w \in Users : Listed(w)' =
              IF w = u THEN Listed(u) \ {session[u].voice} ELSE Listed(w)
      <3>1. CASE Cached /\ session[u].voice \in group.channels
        <4>1. PICK h : h = LeftChannels(group, u, {session[u].voice})
          OBVIOUS
        <4>2. LeftGroup(h, u, {session[u].voice}) /\ group' = h
          BY <1>6, <3>1, <4>1, GroupLeft, DisconnectEffect
        <4>3. Cached' /\ group.channels \subseteq Channels
          BY <3>1, <4>2 DEF LeftGroup, Cached, TypeOK, Group
        <4>4. /\ group'.channels = group.channels
              /\ \A d \in Channels :
                     group'.users[d] = IF d \in {session[u].voice} THEN group.users[d] \ {u}
                                       ELSE group.users[d]
          BY <4>2 DEF LeftGroup
        <4>5. ASSUME NEW w \in Users
              PROVE  Listed(w)' = IF w = u THEN Listed(u) \ {session[u].voice} ELSE Listed(w)
          <5>1. Listed(w)' = {d \in group.channels : w \in group'.users[d]}
            BY <4>3, <4>4 DEF Listed
          <5>2. Listed(w) = {d \in group.channels : w \in group.users[d]}
            BY <3>1 DEF Listed
          <5>3. Listed(u) = {d \in group.channels : u \in group.users[d]}
            BY <3>1 DEF Listed
          <5>4. \A d \in group.channels :
                    w \in group'.users[d] <=>
                        /\ w \in group.users[d]
                        /\ ~ (w = u /\ d = session[u].voice)
            BY <4>3, <4>4
          <5>5. CASE w = u
            <6>1. {d \in group.channels : w \in group'.users[d]}
                      = {d \in group.channels : u \in group.users[d]} \ {session[u].voice}
              BY <5>4, <5>5
            <6> QED
              BY <5>1, <5>3, <5>5, <6>1
          <5>6. CASE w # u
            <6>1. {d \in group.channels : w \in group'.users[d]}
                      = {d \in group.channels : w \in group.users[d]}
              BY <5>4, <5>6
            <6> QED
              BY <5>1, <5>2, <5>6, <6>1
          <5> QED
            BY <5>5, <5>6
        <4> QED
          BY <4>5
      <3>2. CASE ~(Cached /\ session[u].voice \in group.channels)
        <4>1. group' = group
          BY <1>6, <3>2, DisconnectEffect
        <4> QED
          BY <3>2, <4>1 DEF Listed, Cached
      <3> QED
        BY <3>1, <3>2
    <2>2. \A w \in Users : Spoken(w)' = IF w = u THEN {} ELSE Spoken(w)
      BY <1>6, DisconnectEffect
    <2>3. Straying({})
      BY <1>6 DEF Disconnect
    <2>4. VoiceAgrees'
      <3>1. Agree(u) => Agree(u)'
        BY <2>1, <2>2, <1>6 DEF Agree, Spoken, Disconnect
      <3> QED
        BY <2>1, <2>2, <2>3, <3>1 DEF VoiceAgrees, Agree, Straying
    <2>5. VoicesBelong'
      <3>1. UNCHANGED <<db, lock>>
        BY <1>6 DEF Disconnect
      <3>2. \/ group' = group
            \/ Cached /\ group' = LeftChannels(group, u, {session[u].voice})
        BY <1>6, DisconnectEffect
      <3>3. ASSUME Cached, NEW h, h = LeftChannels(group, u, {session[u].voice})
            PROVE  h \in Group /\ h.members = group.members
        <4>1. LeftGroup(h, u, {session[u].voice})
          BY <3>3, GroupLeft
        <4> QED
          BY <4>1 DEF LeftGroup
      <3>4. (Cached' <=> Cached) /\ (Cached => group'.members = group.members)
        BY <3>2, <3>3 DEF Cached
      <3> QED
        BY <2>2, <3>1, <3>4 DEF VoicesBelong, Removing
    <2> QED
      BY <2>4, <2>5
  <1>7. ASSUME NEW u \in Users, Subscribe(u)
        PROVE  VoicesBelong' /\ VoiceAgrees'
    <2>1. \A w \in Users : Listed(w)' = Listed(w)
      <3>1. CASE Cached
        <4>1. group.channels \subseteq Channels
          BY <3>1 DEF TypeOK, Group, Cached
        <4>2. Cached' /\ group'.channels = group.channels
          BY <1>7, <3>1, SubscribeEffect
        <4>3. \A d \in Channels : group'.users[d] = group.users[d]
          BY <1>7, <3>1, SubscribeEffect
        <4> QED
          BY <3>1, <4>1, <4>2, <4>3 DEF Listed
      <3>2. CASE ~Cached
        <4>1. db.channels \subseteq Channels
          BY DEF TypeOK
        <4>2. /\ Cached' /\ group'.channels = db.channels
              /\ \A d \in Channels : group'.users[d] = {}
          BY <1>7, <3>2, SubscribeEffect
        <4> QED
          BY <3>2, <4>1, <4>2 DEF Listed
      <3> QED
        BY <3>1, <3>2
    <2>2. \A w \in Users : Spoken(w)' = Spoken(w)
      BY <1>7, SubscribeEffect DEF Spoken, Online
    <2>3. Straying({})
      BY <1>7 DEF Subscribe
    <2>4. VoiceAgrees'
      BY <2>1, <2>2, <2>3 DEF VoiceAgrees, Agree, Straying
    <2>5. VoicesBelong'
      BY <1>7, <2>2, SubscribeEffect DEF VoicesBelong, Removing
    <2> QED
      BY <2>4, <2>5
  <1>8. ASSUME NEW u \in Users, Unsubscribe(u)
        PROVE  VoicesBelong' /\ VoiceAgrees'
    <2>1. \A w \in Users : Listed(w)' = IF Cached' THEN Listed(w) ELSE {}
      BY <1>8 DEF Unsubscribe, TypeOK, Session, Group, Cached, Online, WithVoice, Listed
    <2>2. \A w \in Users : Spoken(w)' = Spoken(w)
      BY <1>8 DEF Unsubscribe, TypeOK, Session, Group, Cached, Online, WithVoice, Spoken
    <2>3. Straying(IF Cached' THEN {} ELSE Users)
      BY <1>8 DEF Unsubscribe
    <2>4. VoiceAgrees'
      BY <2>1, <2>2, <2>3 DEF VoiceAgrees, Agree, Straying
    <2>5. VoicesBelong'
      BY <1>8, <2>2 DEF Unsubscribe, VoicesBelong, Cached, Removing, TypeOK, Group
    <2> QED
      BY <2>4, <2>5
  <1>9. ASSUME NEW u \in Users, NEW c \in Channels, JoinVoice(u, c)
        PROVE  VoicesBelong' /\ VoiceAgrees'
    <2>1. \A w \in Users : Listed(w)' = IF w = u THEN Listed(u) \cup {c} ELSE Listed(w)
      <3>1. /\ Cached /\ c \in group.channels
            /\ group' = [group EXCEPT !.users[c] = group.users[c] \cup {u}]
        BY <1>9 DEF JoinVoice
      <3>2. group.users[c] \cup {u} \in SUBSET Users
        BY <3>1 DEF TypeOK, Group, Cached
      <3>3. \A w \in Users : Listed(w)' =
                {d \in group.channels :
                     w \in IF d = c THEN group.users[c] \cup {u} ELSE group.users[d]}
        BY <3>1, <3>2, UsersSet
      <3> QED
        BY ZenonT(40), <3>1, <3>3 DEF Listed
    <2>2. \A w \in Users : Spoken(w)' = IF w = u /\ Online(u) THEN {c} ELSE Spoken(w)
      <3>1. session' = WithVoice(u, c)
        BY <1>9 DEF JoinVoice
      <3> QED
        BY <3>1, VoiceSet
    <2>3. Straying(IF Online(u) THEN {} ELSE {u})
      BY <1>9 DEF JoinVoice
    <2>4. VoiceAgrees'
      <3>1. Online(u) => Spoken(u) = {}
        BY <1>9, VoiceAssumption DEF JoinVoice, Spoken
      <3> QED
        BY <2>1, <2>2, <2>3, <3>1 DEF VoiceAgrees, Agree, Straying
    <2>5. VoicesBelong'
      BY <1>9, <2>2 DEF JoinVoice, VoicesBelong, Cached, Removing, TypeOK, Group
    <2> QED
      BY <2>4, <2>5
  <1>10. ASSUME NEW u \in Users, NEW c \in Channels, ExitVoice(u, c)
        PROVE  VoicesBelong' /\ VoiceAgrees'
    <2>1. \A w \in Users : Listed(w)' = IF w = u THEN Listed(u) \ {c} ELSE Listed(w)
      <3>1. /\ Cached /\ c \in group.channels
            /\ group' = [group EXCEPT !.users[c] = group.users[c] \ {u}]
        BY <1>10 DEF ExitVoice
      <3>2. group.users[c] \ {u} \in SUBSET Users
        BY <3>1 DEF TypeOK, Group, Cached
      <3>3. \A w \in Users : Listed(w)' =
                {d \in group.channels :
                     w \in IF d = c THEN group.users[c] \ {u} ELSE group.users[d]}
        BY <3>1, <3>2, UsersSet
      <3> QED
        BY ZenonT(40), <3>1, <3>3 DEF Listed
    <2>2. \A w \in Users : Spoken(w)' = IF w = u THEN {} ELSE Spoken(w)
      <3>1. session' = WithVoice(u, Silent)
        BY <1>10 DEF ExitVoice
      <3>2. ~Online(u) => Spoken(u) = {}
        BY DEF Spoken
      <3>3. {Silent} \cap Channels = {}
        BY VoiceAssumption
      <3> QED
        BY <3>1, <3>2, <3>3, VoiceSet
    <2>3. Straying(IF c \in Spoken(u) THEN {} ELSE {u})
      BY <1>10 DEF ExitVoice
    <2>4. VoiceAgrees'
      <3>1. c \in Spoken(u) => Spoken(u) = {c}
        BY DEF Spoken
      <3> QED
        BY <2>1, <2>2, <2>3, <3>1 DEF VoiceAgrees, Agree, Straying
    <2>5. VoicesBelong'
      BY <1>10, <2>2 DEF ExitVoice, VoicesBelong, Cached, Removing, TypeOK, Group
    <2> QED
      BY <2>4, <2>5
  <1>11. ASSUME NEW u \in Users, NEW c \in Channels, MoveToVoice(u, c)
        PROVE  VoicesBelong' /\ VoiceAgrees'
    <2>1. \A w \in Users : Listed(w)' = IF w = u THEN Listed(u) \cup {c} ELSE Listed(w)
      <3>1. /\ Cached /\ c \in group.channels
            /\ group' = [group EXCEPT !.users[c] = group.users[c] \cup {u}]
        BY <1>11 DEF MoveToVoice
      <3>2. group.users[c] \cup {u} \in SUBSET Users
        BY <3>1 DEF TypeOK, Group, Cached
      <3>3. \A w \in Users : Listed(w)' =
                {d \in group.channels :
                     w \in IF d = c THEN group.users[c] \cup {u} ELSE group.users[d]}
        BY <3>1, <3>2, UsersSet
      <3> QED
        BY ZenonT(40), <3>1, <3>3 DEF Listed
    <2>2. \A w \in Users : Spoken(w)' = Spoken(w)
      BY <1>11 DEF MoveToVoice, TypeOK, Session, Group, Cached, Online, WithVoice, Spoken
    <2>3. Straying({u})
      BY <1>11 DEF MoveToVoice
    <2>4. VoiceAgrees'
      BY <2>1, <2>2, <2>3 DEF VoiceAgrees, Agree, Straying
    <2>5. VoicesBelong'
      BY <1>11, <2>2 DEF MoveToVoice, VoicesBelong, Cached, Removing, TypeOK, Group
    <2> QED
      BY <2>4, <2>5
  <1>12. ASSUME NEW c \in Channels, PartyChanges(c)
        PROVE  VoicesBelong' /\ VoiceAgrees'
    <2>1. \A w \in Users : Listed(w)' = Listed(w)
      BY <1>12 DEF PartyChanges, TypeOK, Session, Group, Cached, Online, WithVoice, Listed
    <2>2. \A w \in Users : Spoken(w)' = Spoken(w)
      BY <1>12 DEF PartyChanges, TypeOK, Session, Group, Cached, Online, WithVoice, Spoken
    <2>3. strays' = strays
      BY <1>12 DEF PartyChanges
    <2>4. VoiceAgrees'
      BY <2>1, <2>2, <2>3 DEF VoiceAgrees, Agree
    <2>5. VoicesBelong'
      BY <1>12, <2>2 DEF PartyChanges, VoicesBelong, Cached, Removing, TypeOK, Group
    <2> QED
      BY <2>4, <2>5
  <1>13. ASSUME NEW u \in Users, NEW c \in Channels, DeleteChannelInDb(u, c)
        PROVE  VoicesBelong' /\ VoiceAgrees'
    <2>1. \A w \in Users : Listed(w)' = Listed(w)
      BY <1>13 DEF DeleteChannelInDb, TypeOK, Session, Group, Cached, Online, WithVoice,
         Listed
    <2>2. \A w \in Users : Spoken(w)' = Spoken(w)
      BY <1>13 DEF DeleteChannelInDb, TypeOK, Session, Group, Cached, Online, WithVoice,
         Spoken
    <2>3. strays' = strays
      BY <1>13 DEF DeleteChannelInDb
    <2>4. VoiceAgrees'
      BY <2>1, <2>2, <2>3 DEF VoiceAgrees, Agree
    <2>5. VoicesBelong'
      BY <1>13, <2>2 DEF DeleteChannelInDb, VoicesBelong, Cached, Removing, TypeOK, Group
    <2> QED
      BY <2>4, <2>5
  <1>14. CASE DeleteChannelApply
    <2>1. \A w \in Users : Listed(w)' =
              IF group' = group THEN Listed(w) ELSE Listed(w) \ {lock.channel}
      <3>1. CASE group' = group
        BY <3>1 DEF Listed, Cached
      <3>2. CASE group' # group
        <4>1. \A d \in group.channels : Cached => d \in Channels
          BY DEF TypeOK, Group, Cached
        <4> QED
          BY <1>14, <3>2, <4>1, ChannelDeleted DEF Listed
      <3> QED
        BY <3>1, <3>2
    <2>2. \A w \in Users : Spoken(w)' = Spoken(w)
      BY <1>14, ChannelDeleted DEF Spoken, Online
    <2>3. Straying({u \in Users : lock.channel \in Spoken(u)})
      BY <1>14 DEF DeleteChannelApply
    <2>4. VoiceAgrees'
      <3>1. ASSUME NEW w \in Users, w \notin strays'
            PROVE  Agree(w)'
        <4>1. CASE lock.channel \in Spoken(w)
          BY <2>3, <3>1, <4>1 DEF Straying
        <4>2. CASE lock.channel \notin Spoken(w)
          <5>1. CASE Agree(w)
            BY <2>1, <2>2, <4>2, <5>1 DEF Agree
          <5>2. CASE w \in strays
            BY <2>3, <3>1, <5>2 DEF Straying
          <5> QED
            BY <5>1, <5>2 DEF VoiceAgrees
        <4> QED
          BY <4>1, <4>2
      <3> QED
        BY <3>1 DEF VoiceAgrees
    <2>5. VoicesBelong'
      <3>1. (Cached' <=> Cached) /\ (Cached => group'.members = group.members)
        BY <1>14, ChannelDeleted DEF Cached
      <3>2. db' = db /\ Removing = {} /\ Removing' = {}
        BY <1>14, ChannelDeleted DEF Removing
      <3> QED
        BY <2>2, <3>1, <3>2 DEF VoicesBelong
    <2> QED
      BY <2>4, <2>5
  <1>15. CASE RemoveApply
    <2>1. PICK u \in Users :
              /\ lock # Free /\ lock.kind = "remove" /\ lock.user = u
              /\ lock' = Free /\ UNCHANGED <<db, late>>
              /\ \A w \in Users : Spoken(w)' = IF w = u THEN {} ELSE Spoken(w)
              /\ ~Cached => group' = group
              /\ Cached => \E h :
                     /\ LeftGroup(h, u, group.channels)
                     /\ group' \in Group /\ group'.members = h.members \ {u}
                     /\ group'.channels = h.channels
                     /\ group'.users = h.users /\ group'.party = h.party
      BY <1>15, MemberRemoved
    <2>2. /\ Cached' <=> Cached
          /\ Cached => /\ group'.members = group.members \ {u}
                       /\ group'.channels = group.channels
                       /\ \A c \in Channels :
                              group'.users[c] = IF c \in group.channels
                                                THEN group.users[c] \ {u} ELSE group.users[c]
      BY ZenonT(40), <2>1 DEF LeftGroup, Cached
    <2>3. \A w \in Users : Listed(w)' = IF w = u THEN {} ELSE Listed(w)
      <3>1. \A d \in group.channels : Cached => d \in Channels
        BY DEF TypeOK, Group, Cached
      <3> QED
        BY <2>2, <3>1 DEF Listed
    <2>4. VoiceAgrees'
      <3>1. Straying({})
        BY <1>15 DEF RemoveApply
      <3> QED
        BY <2>1, <2>3, <3>1 DEF VoiceAgrees, Agree, Straying
    <2>5. VoicesBelong'
      <3>1. Removing = {u} /\ Removing' = {}
        BY <2>1 DEF Removing
      <3> QED
        BY <2>1, <2>2, <3>1 DEF VoicesBelong
    <2> QED
      BY <2>4, <2>5
  <1>16. CASE DeleteGroupInDb
    <2>1. \A w \in Users : Listed(w)' = Listed(w)
      BY <1>16 DEF DeleteGroupInDb, TypeOK, Session, Group, Cached, Online, WithVoice,
         Listed
    <2>2. \A w \in Users : Spoken(w)' = Spoken(w)
      BY <1>16 DEF DeleteGroupInDb, TypeOK, Session, Group, Cached, Online, WithVoice,
         Spoken
    <2>3. strays' = strays
      BY <1>16 DEF DeleteGroupInDb
    <2>4. VoiceAgrees'
      BY <2>1, <2>2, <2>3 DEF VoiceAgrees, Agree
    <2>5. VoicesBelong'
      BY <1>16, <2>2 DEF DeleteGroupInDb, VoicesBelong, Cached, Removing, TypeOK, Group
    <2> QED
      BY <2>4, <2>5
  <1>17. CASE DeleteGroupApply
    <2>1. \A w \in Users : Listed(w)' = {}
      BY <1>17 DEF DeleteGroupApply, Listed, Cached
    <2>2. \A w \in Users : Spoken(w)' = {}
      <3>1. \A w \in Users : Spoken(w) # {} => w \in group.members /\ session[w] \in Session
        BY <1>17 DEF VoicesBelong, DeleteGroupApply, TypeOK, Spoken, Online
      <3>2. \A w \in Users : session'[w] = IF Spoken(w) # {}
                                          THEN [session[w] EXCEPT !.voice = Silent]
                                          ELSE session[w]
        BY <1>17, <3>1 DEF DeleteGroupApply
      <3>3. ASSUME NEW w \in Users, Spoken(w) # {}
            PROVE  Spoken(w)' = {}
        <4>1. session'[w].voice = Silent
          BY <3>1, <3>2, <3>3 DEF Session
        <4> QED
          BY <4>1, VoiceAssumption DEF Spoken
      <3>4. ASSUME NEW w \in Users, Spoken(w) = {}
            PROVE  Spoken(w)' = {}
        BY <3>2, <3>4 DEF Spoken, Online
      <3> QED
        BY <3>3, <3>4
    <2>3. Straying({})
      BY <1>17 DEF DeleteGroupApply
    <2>4. VoiceAgrees'
      BY <2>1, <2>2, <2>3 DEF VoiceAgrees, Agree, Straying
    <2>5. VoicesBelong'
      BY <1>17, <2>2 DEF DeleteGroupApply, VoicesBelong, Cached
    <2> QED
      BY <2>4, <2>5
  <1> QED
    BY <1>20, <1>1, <1>2, <1>3, <1>4, <1>5, <1>6, <1>7, <1>8, <1>9, <1>10, <1>11, <1>12,
       <1>13, <1>14, <1>15, <1>16, <1>17 DEF Step

(* Whoever leaves, a party keeps a host. *)
LEMMA HostsKept ==
    ASSUME TypeOK, PartiesHaveHosts, Step
    PROVE  PartiesHaveHosts'
  <1>20. \A u \in Users, c \in Channels :
            JoinParty(u, c) \/ LeaveParty(u, c) \/ Watch(u, c) \/ JumpTo(u, c) =>
                PartyChanges(c)
    BY PartyEffect
  <1> USE ValuesApart DEF TypeOK, PartiesHaveHosts, Group, Cached, Hosted
  <1>1. ASSUME NEW u \in Users, Connect(u)
        PROVE  PartiesHaveHosts'
    BY <1>1 DEF Connect
  <1>2. ASSUME NEW u \in Users, TaskEnds(u)
        PROVE  PartiesHaveHosts'
    BY <1>2 DEF TaskEnds
  <1>3. ASSUME NEW u \in Users, SpeakElsewhere(u)
        PROVE  PartiesHaveHosts'
    BY <1>3 DEF SpeakElsewhere
  <1>4. ASSUME NEW u \in Users, RemoveInDb(u)
        PROVE  PartiesHaveHosts'
    BY <1>4 DEF RemoveInDb
  <1>5. ASSUME NEW u \in Users, Rejoin(u)
        PROVE  PartiesHaveHosts'
    BY <1>5 DEF Rejoin
  <1>6. ASSUME NEW u \in Users, Disconnect(u)
        PROVE  PartiesHaveHosts'
    <2>1. \/ group' = group
          \/ Cached /\ group' = LeftChannels(group, u, {session[u].voice})
      <3> HIDE DEF TypeOK, Cached
      <3> QED
        BY <1>6, DisconnectEffect
    <2> HIDE DEF TypeOK, Cached, Group, PartiesHaveHosts, Hosted
    <2>2. ASSUME Cached, NEW h, h = LeftChannels(group, u, {session[u].voice})
          PROVE  LeftGroup(h, u, {session[u].voice})
      BY <2>2, GroupLeft
    <2> QED
      BY <2>1, <2>2 DEF Cached, PartiesHaveHosts, Hosted, LeftGroup
  <1>7. ASSUME NEW u \in Users, Subscribe(u)
        PROVE  PartiesHaveHosts'
    <2> HIDE DEF TypeOK, Group
    <2> QED
      BY <1>7, SubscribeEffect
  <1>8. ASSUME NEW u \in Users, Unsubscribe(u)
        PROVE  PartiesHaveHosts'
    BY <1>8 DEF Unsubscribe
  <1>9. ASSUME NEW u \in Users, NEW c \in Channels, JoinVoice(u, c)
        PROVE  PartiesHaveHosts'
    BY <1>9 DEF JoinVoice
  <1>10. ASSUME NEW u \in Users, NEW c \in Channels, ExitVoice(u, c)
        PROVE  PartiesHaveHosts'
    BY <1>10 DEF ExitVoice
  <1>11. ASSUME NEW u \in Users, NEW c \in Channels, MoveToVoice(u, c)
        PROVE  PartiesHaveHosts'
    BY <1>11 DEF MoveToVoice
  <1>12. ASSUME NEW c \in Channels, PartyChanges(c)
        PROVE  PartiesHaveHosts'
    BY <1>12 DEF PartyChanges
  <1>13. ASSUME NEW u \in Users, NEW c \in Channels, DeleteChannelInDb(u, c)
        PROVE  PartiesHaveHosts'
    BY <1>13 DEF DeleteChannelInDb
  <1>14. CASE DeleteChannelApply
    <2> HIDE DEF TypeOK, Group
    <2> QED
      BY <1>14, ChannelDeleted
  <1>15. CASE RemoveApply
    <2>1. Cached => \A c \in Channels : Hosted(group'.party[c])
      <3> HIDE DEF PartiesHaveHosts, Hosted, TypeOK, Group
      <3> QED
        BY <1>15, MemberRemoved DEF LeftGroup
    <2>2. ~Cached => group' = group
      BY <1>15 DEF RemoveApply
    <2> QED
      BY <2>1, <2>2
  <1>16. CASE DeleteGroupInDb
    BY <1>16 DEF DeleteGroupInDb
  <1>17. CASE DeleteGroupApply
    BY <1>17 DEF DeleteGroupApply
  <1> HIDE DEF TypeOK, PartiesHaveHosts, Group, Cached, Hosted
  <1> QED
    BY <1>20, <1>1, <1>2, <1>3, <1>4, <1>5, <1>6, <1>7, <1>8, <1>9, <1>10, <1>11, <1>12,
       <1>13, <1>14, <1>15, <1>16, <1>17 DEF Step

(* Whoever leaves a channel leaves its party, but through ExitVoice. *)
LEMMA OnlyExitHauntsKept ==
    ASSUME TypeOK, PartiesHaveHosts, Step
    PROVE  OnlyExit
  <1>20. \A u \in Users, c \in Channels :
            JoinParty(u, c) \/ LeaveParty(u, c) \/ Watch(u, c) \/ JumpTo(u, c) =>
                PartyChanges(c)
    BY PartyEffect
  <1> USE ValuesApart DEF TypeOK, Group, Cached, Haunts, OnlyExit
  <1>1. ASSUME NEW u \in Users, Connect(u)
        PROVE  OnlyExit
    BY <1>1 DEF Connect
  <1>2. ASSUME NEW u \in Users, TaskEnds(u)
        PROVE  OnlyExit
    BY <1>2 DEF TaskEnds
  <1>3. ASSUME NEW u \in Users, SpeakElsewhere(u)
        PROVE  OnlyExit
    BY <1>3 DEF SpeakElsewhere
  <1>4. ASSUME NEW u \in Users, RemoveInDb(u)
        PROVE  OnlyExit
    BY <1>4 DEF RemoveInDb
  <1>5. ASSUME NEW u \in Users, Rejoin(u)
        PROVE  OnlyExit
    BY <1>5 DEF Rejoin
  <1>6. ASSUME NEW u \in Users, Disconnect(u)
        PROVE  OnlyExit
    <2> HIDE DEF TypeOK, Cached, Group
    <2>1. \/ group' = group
          \/ Cached /\ group' = LeftChannels(group, u, {session[u].voice})
      BY <1>6, DisconnectEffect
    <2>2. ASSUME Cached, NEW h, h = LeftChannels(group, u, {session[u].voice})
          PROVE  LeftGroup(h, u, {session[u].voice})
      BY <2>2, GroupLeft
    <2>3. CASE group' = group
      BY <2>3 DEF Cached
    <2>4. CASE Cached /\ group' = LeftChannels(group, u, {session[u].voice})
      <3>1. PICK h : h = LeftChannels(group, u, {session[u].voice})
        OBVIOUS
      <3>2. LeftGroup(h, u, {session[u].voice}) /\ group' = h /\ group # NoGroup
        BY <2>2, <2>4, <3>1 DEF Cached
      <3>3. \A v \in Users, d \in Channels :
                h.party[d] # NoParty /\ v \in h.party[d].users \ h.users[d] =>
                    group.party[d] # NoParty /\ v \in group.party[d].users \ group.users[d]
        BY ZenonT(40), <3>2 DEF LeftGroup
      <3> QED
        BY <3>2, <3>3 DEF Cached
    <2> QED
      BY <2>1, <2>3, <2>4
  <1>7. ASSUME NEW u \in Users, Subscribe(u)
        PROVE  OnlyExit
    <2> HIDE DEF TypeOK, Group
    <2> QED
      BY <1>7, SubscribeEffect
  <1>8. ASSUME NEW u \in Users, Unsubscribe(u)
        PROVE  OnlyExit
    BY <1>8 DEF Unsubscribe
  <1>9. ASSUME NEW u \in Users, NEW c \in Channels, JoinVoice(u, c)
        PROVE  OnlyExit
    BY <1>9 DEF JoinVoice
  <1>10. ASSUME NEW u \in Users, NEW c \in Channels, ExitVoice(u, c)
        PROVE  OnlyExit
    BY ZenonT(40), <1>10 DEF ExitVoice
  <1>11. ASSUME NEW u \in Users, NEW c \in Channels, MoveToVoice(u, c)
        PROVE  OnlyExit
    BY <1>11 DEF MoveToVoice
  <1>12. ASSUME NEW c \in Channels, PartyChanges(c)
        PROVE  OnlyExit
    BY <1>12 DEF PartyChanges
  <1>13. ASSUME NEW u \in Users, NEW c \in Channels, DeleteChannelInDb(u, c)
        PROVE  OnlyExit
    BY <1>13 DEF DeleteChannelInDb
  <1>14. CASE DeleteChannelApply
    <2> HIDE DEF TypeOK, Group
    <2> QED
      BY <1>14, ChannelDeleted
  <1>15. CASE RemoveApply
    <2> HIDE DEF TypeOK, Group
    <2> QED
      BY ZenonT(40), <1>15, MemberRemoved DEF LeftGroup
  <1>16. CASE DeleteGroupInDb
    BY <1>16 DEF DeleteGroupInDb
  <1>17. CASE DeleteGroupApply
    BY <1>17 DEF DeleteGroupApply
  <1> HIDE DEF TypeOK, Group, Cached, Haunts, OnlyExit
  <1> QED
    BY <1>20, <1>1, <1>2, <1>3, <1>4, <1>5, <1>6, <1>7, <1>8, <1>9, <1>10, <1>11, <1>12,
       <1>13, <1>14, <1>15, <1>16, <1>17 DEF Step
------------------------------------------------------------------------------
(* Results *)

LEMMA NextIInv == IInv /\ [Next]_vars => IInv'
  <1> SUFFICES ASSUME IInv, [Next]_vars PROVE IInv'
    OBVIOUS
  <1>1. CASE Step
    <2>1. TypeOK /\ VoicesBelong /\ VoiceAgrees /\ PartiesHaveHosts
      BY DEF IInv
    <2>2. TypeOK' /\ PartiesHaveHosts'
      BY <1>1, <2>1, TypesKept, HostsKept
    <2>3. VoicesBelong' /\ VoiceAgrees'
      BY <1>1, <2>1, AgreementKept
    <2> QED
      BY <2>2, <2>3 DEF IInv
  <1>2. CASE UNCHANGED vars
    <2>1. TypeOK' /\ PartiesHaveHosts'
      BY <1>2 DEF vars, IInv, TypeOK, PartiesHaveHosts, Cached
    <2>2. VoicesBelong' /\ VoiceAgrees'
      BY <1>2 DEF vars, IInv, VoicesBelong, VoiceAgrees, Agree, Listed, Spoken, Cached,
         Online, Removing
    <2> QED
      BY <2>1, <2>2 DEF IInv
  <1> QED
    BY <1>1, <1>2 DEF Next

LEMMA Invariance == Spec => []IInv
  BY InitIInv, NextIInv, PTL DEF Spec

(* The group, its channels and parties, the sessions and the lock stay     *)
(* well formed: a channel that the group does not have has no users and no *)
(* party.                                                                  *)
THEOREM VoiceIsTyped == Spec => []TypeOK
  <1>1. IInv => TypeOK
    BY DEF IInv
  <1> QED
    BY <1>1, Invariance, PTL

(* Channels list exactly the users whose sessions say so, but for users    *)
(* whom a named hazard has torn apart.                                     *)
THEOREM TheVoicesAgree == Spec => []VoiceAgrees
  <1>1. IInv => VoiceAgrees
    BY DEF IInv
  <1> QED
    BY <1>1, Invariance, PTL

(* The host of a watch party is in it, whoever leaves and in whatever way. *)
THEOREM PartiesKeepHosts == Spec => []PartiesHaveHosts
  <1>1. IInv => PartiesHaveHosts
    BY DEF IInv
  <1> QED
    BY <1>1, Invariance, PTL

(* No step but ExitVoice leaves a user in the party of a channel that they *)
(* are not, or no longer, in.                                              *)
THEOREM ExitAloneHaunts == Spec => OnlyExitHaunts
  <1>1. IInv /\ [Next]_vars =>
            [\A u \in Users, c \in Channels :
                 Haunts(u, c)' => Haunts(u, c) \/ ExitVoice(u, c)]_vars
    BY OnlyExitHauntsKept DEF IInv, Next, OnlyExit
  <1> QED
    BY <1>1, Invariance, PTL DEF Spec, OnlyExitHaunts
=============================================================================
