---------------------------- MODULE MessageStore ----------------------------
(***************************************************************************)
(* The message store (RocksDB): messages by id, an index per conversation, *)
(* the list of conversations of each user, and the rows of reactions in    *)
(* the database.  A handler is a sequence of reads and puts, some of them  *)
(* in one blocking closure; none of them excludes another, and each may be *)
(* the last: the store fails, the client goes away, the process dies.      *)
(* One channel and one pair of users stand for all conversations.          *)
(***************************************************************************)
EXTENDS Integers, Sequences, FiniteSets, FiniteSetsExt

CONSTANTS MaxId,   \* bound on the messages that are sent
          Texts,   \* Data
          Users,   \* who react
          Tasks,   \* handlers in progress
          MaxLen,  \* bound on the length asked for in a listing
          Scopes,  \* bounds: what the instances that are explored attempt
          None, NoOp

ASSUME MessageStoreAssumption ==
    /\ MaxId \in Nat
    /\ MaxLen \in Nat
    /\ \A sc \in Scopes :
           /\ sc.convs \subseteq {"direct", "channel"}
           /\ sc.kinds \subseteq {"write", "edit", "react", "unreact", "delete",
                                 "clear", "list", "remove_dm"}
           /\ sc.ids \in 0..MaxId  \* messages sent
           /\ sc.tasks \in Nat     \* handlers at a time
           /\ sc.texts \in Nat     \* different Data at a time

VARIABLES
    conv,      \* the conversation a message was sent to, or None
    messages,  \* column family messages
    index,     \* dm_index and channel_index
    dms,       \* user_dms: the sides whose list has the other
    reactions, \* rows <<message, user>> of the table reactions
    channel,   \* does the row of the channel exist
    op,        \* what a handler has read, and what it does next
    last,      \* history: the data of the last completed overwrite
    deleted,   \* history: messages whose delete_message has completed
    hidden,    \* history: sides that have removed the other since its last message
    torn,      \* history: messages two racing handlers, or half of one, left so
    scope      \* the bounds of this behaviour, one of Scopes

vars == <<conv, messages, index, dms, reactions, channel, op, last, deleted, hidden,
          torn, scope>>
history == <<last, deleted, hidden, torn>>

Ids == 1..MaxId
Convs == {"direct", "channel"}
Sides == {1, 2}
Message == [data : Texts, reacted : BOOLEAN]
Op == [kind : {"write"}, pc : {"put", "index", "key1", "key2"}, id : Ids, data : Texts]
 \cup [kind : {"edit"}, pc : {"put"}, id : Ids, snap : Message, data : Texts]
 \cup [kind : {"react"}, pc : {"insert", "put"}, id : Ids, snap : Message, user : Users]
 \cup [kind : {"unreact"}, pc : {"remove"}, id : Ids, user : Users]
 \cup [kind : {"delete"}, pc : {"reactions", "lookup", "unindex", "remove"}, id : Ids]
 \cup [kind : {"clear"}, pc : {"scan", "batch"}, left : SUBSET Ids]

(* A listing also remembers what it has found in the index. *)
ListOp == [kind : {"list"}, pc : {"visit", "done"}, before : 1..(MaxId + 1),
           len : 0..MaxLen, found : SUBSET Ids, left : SUBSET Ids, page : Seq(Ids)]

ASSUME ValuesApart ==
    /\ NoOp \notin Op \cup ListOp
    /\ None \notin Message \cup Convs

TypeOK ==
    /\ conv \in [Ids -> Convs \cup {None}]
    /\ messages \in [Ids -> Message \cup {None}]
    /\ index \subseteq Convs \X Ids
    /\ dms \subseteq Sides
    /\ reactions \subseteq Ids \X Users
    /\ channel \in BOOLEAN
    /\ op \in [Tasks -> Op \cup ListOp \cup {NoOp}]
    /\ last \in [Ids -> Texts \cup {None}]
    /\ deleted \subseteq Ids /\ torn \subseteq Ids /\ hidden \subseteq Sides
    /\ \A s, t \in Tasks : /\ op[s] # NoOp /\ op[s].kind = "write"
                           /\ op[t] # NoOp /\ op[t].kind = "write"
                           /\ op[s].id = op[t].id
                           => s = t
    /\ scope \in Scopes

Init ==
    /\ conv = [i \in Ids |-> None]
    /\ messages = [i \in Ids |-> None]
    /\ index = {}
    /\ dms = {}
    /\ reactions = {}
    /\ channel = TRUE
    /\ op = [t \in Tasks |-> NoOp]
    /\ last = [i \in Ids |-> None]
    /\ deleted = {}
    /\ hidden = {}
    /\ torn = {}
    /\ scope \in Scopes

------------------------------------------------------------------------------
(* Helpers *)

Stored(i) == messages[i] # None

At(t, kind, pc) == op[t] # NoOp /\ op[t].kind = kind /\ op[t].pc = pc

(* Is a handler of one of the kinds at work on message i? *)
Busy(kinds, i) ==
    \E t \in Tasks : op[t] # NoOp /\ op[t].kind \in kinds /\ op[t].id = i

(* The reactions of message i are gone, and the message is to follow. *)
Deleting(i) ==
    \E t \in Tasks : /\ op[t] # NoOp /\ op[t].kind = "delete" /\ op[t].id = i
                    /\ op[t].pc # "reactions"

(* Bound: so many handlers are in progress at a time. *)
MayBegin(t, kind) ==
    /\ kind \in scope.kinds
    /\ op[t] = NoOp
    /\ Cardinality({s \in Tasks : op[s] # NoOp}) < scope.tasks

Begin(t, new) ==
    /\ MayBegin(t, new.kind)
    /\ op' = [op EXCEPT ![t] = new]

GoTo(t, pc) == op' = [op EXCEPT ![t].pc = pc]
End(t) == op' = [op EXCEPT ![t] = NoOp]

------------------------------------------------------------------------------
(* handle_bytes and MessageStore::write.  The sender is told the id before *)
(* the message is written, and may edit or delete it meanwhile.            *)

Fresh_SameMilli(i) == i = 1
Fresh(i) == conv[i] = None /\ \A j \in 1..(i - 1) : conv[j] # None

(* Bound: so many different texts are sent. *)
TextsWith(d) ==
    {d} \cup ({last[i] : i \in Ids} \ {None})
        \cup {op[t].data : t \in {s \in Tasks : op[s] # NoOp /\ op[s].kind = "write"}}

Send(t, c, d) ==
    \E i \in Ids :
        /\ MayBegin(t, "write")
        /\ i <= scope.ids /\ c \in scope.convs
        /\ Cardinality(TextsWith(d)) <= scope.texts
        /\ Fresh(i)
        /\ conv' = [conv EXCEPT ![i] = c]
        /\ Begin(t, [kind |-> "write", pc |-> "put", id |-> i, data |-> d])
        /\ UNCHANGED <<messages, index, dms, reactions, channel, history>>

WritePut(t) ==
    /\ At(t, "write", "put")
    /\ messages' = [messages EXCEPT ![op[t].id] =
                       [data |-> op[t].data, reacted |-> FALSE]]
    /\ last' = [last EXCEPT ![op[t].id] = op[t].data]
    /\ GoTo(t, "index")
    /\ UNCHANGED <<conv, index, dms, reactions, channel, deleted, hidden, torn>>

WriteIndex(t) ==
    LET i == op[t].id IN
    /\ At(t, "write", "index")
    /\ index' = index \cup {<<conv[i], i>>}
    /\ IF conv[i] = "direct" THEN GoTo(t, "key1") ELSE End(t)
    /\ UNCHANGED <<conv, messages, dms, reactions, channel, history>>

(* user1 + user2 -> message_id, and user2 + user1 -> message_id. *)
WriteKey(t) ==
    \E s \in Sides :
        /\ At(t, "write", IF s = 1 THEN "key1" ELSE "key2")
        /\ dms' = dms \cup {s}
        /\ hidden' = hidden \ {s}
        /\ IF s = 1 THEN GoTo(t, "key2") ELSE End(t)
        /\ UNCHANGED <<conv, messages, index, reactions, channel, last, deleted, torn>>

(* MessageStore::remove_dm.  What the handler goes on to do to a session   *)
(* is not part of the store.                                               *)
RemoveDm(s) ==
    /\ "remove_dm" \in scope.kinds
    /\ s \in dms
    /\ dms' = dms \ {s}
    /\ hidden' = hidden \cup {s}
    /\ UNCHANGED <<conv, messages, index, reactions, channel, op, last, deleted, torn>>

------------------------------------------------------------------------------
(* overwrite_message, and the end of a call: get, then overwrite *)

EditGet(t, i, d) ==
    /\ Stored(i)
    /\ Begin(t, [kind |-> "edit", pc |-> "put", id |-> i, snap |-> messages[i], data |-> d])
    /\ UNCHANGED <<conv, messages, index, dms, reactions, channel, history>>

(* What is put back is what was read, changed. *)
Edited_Anew(snap, d) == [data |-> d, reacted |-> FALSE]
Edited(snap, d) == [snap EXCEPT !.data = d]

EditPut(t) ==
    LET i == op[t].id IN
    /\ At(t, "edit", "put")
    /\ messages' = [messages EXCEPT ![i] = Edited(op[t].snap, op[t].data)]
    /\ last' = [last EXCEPT ![i] = op[t].data]
    /\ torn' = torn \cup {j \in {i} : Stored(i) => messages[i].reacted # op[t].snap.reacted}
    /\ End(t)
    /\ UNCHANGED <<conv, index, dms, reactions, channel, deleted, hidden>>

------------------------------------------------------------------------------
(* handle_reaction *)

ReactGet(t, i, u) ==
    /\ Stored(i)
    /\ Begin(t, [kind |-> "react", pc |-> "insert", id |-> i, snap |-> messages[i], user |-> u])
    /\ UNCHANGED <<conv, messages, index, dms, reactions, channel, history>>

ReactInsert(t) ==
    LET r == <<op[t].id, op[t].user>> IN
    /\ At(t, "react", "insert")
    /\ reactions' = reactions \cup {r}
    /\ IF r \notin reactions /\ ~op[t].snap.reacted THEN GoTo(t, "put") ELSE End(t)
    /\ torn' = torn \cup {i \in {r[1]} : Deleting(i) \/ ~Stored(i)}
    /\ UNCHANGED <<conv, messages, index, dms, channel, last, deleted, hidden>>

ReactPut(t) ==
    LET i == op[t].id IN
    /\ At(t, "react", "put")
    /\ messages' = [messages EXCEPT ![i] = [op[t].snap EXCEPT !.reacted = TRUE]]
    /\ torn' = torn \cup {j \in {i} : Stored(i) => messages[i].data # op[t].snap.data}
    /\ End(t)
    /\ UNCHANGED <<conv, index, dms, reactions, channel, last, deleted, hidden>>

UnreactGet(t, i, u) ==
    /\ Stored(i)
    /\ Begin(t, [kind |-> "unreact", pc |-> "remove", id |-> i, user |-> u])
    /\ UNCHANGED <<conv, messages, index, dms, reactions, channel, history>>

UnreactRemove(t) ==
    /\ At(t, "unreact", "remove")
    /\ reactions' = reactions \ {<<op[t].id, op[t].user>>}
    /\ End(t)
    /\ UNCHANGED <<conv, messages, index, dms, channel, history>>

------------------------------------------------------------------------------
(* delete_message: the reactions in the database, then MessageStore::delete *)

DeleteGet(t, i) ==
    /\ Stored(i)
    /\ Begin(t, [kind |-> "delete", pc |-> "reactions", id |-> i])
    /\ UNCHANGED <<conv, messages, index, dms, reactions, channel, history>>

DeleteReactions_Skipped(t) ==
    /\ At(t, "delete", "reactions")
    /\ GoTo(t, "lookup")
    /\ UNCHANGED <<conv, messages, index, dms, reactions, channel, history>>

DeleteReactions(t) ==
    /\ At(t, "delete", "reactions")
    /\ reactions' = {r \in reactions : r[1] # op[t].id}
    /\ GoTo(t, "lookup")
    /\ UNCHANGED <<conv, messages, index, dms, channel, history>>

(* Somebody else may have deleted the message; it may not be indexed yet. *)
DeleteLookup(t) ==
    LET i == op[t].id IN
    /\ At(t, "delete", "lookup")
    /\ IF Stored(i) THEN GoTo(t, "unindex") ELSE End(t)
    /\ torn' = torn \cup {j \in {i} : \E s \in Tasks : At(s, "write", "index") /\ op[s].id = i}
    /\ UNCHANGED <<conv, messages, index, dms, reactions, channel, last, deleted, hidden>>

DeleteUnindex(t) ==
    LET i == op[t].id IN
    /\ At(t, "delete", "unindex")
    /\ index' = index \ {<<conv[i], i>>}
    /\ GoTo(t, "remove")
    /\ UNCHANGED <<conv, messages, dms, reactions, channel, history>>

DeleteRemove(t) ==
    LET i == op[t].id IN
    /\ At(t, "delete", "remove")
    /\ messages' = [messages EXCEPT ![i] = None]
    /\ deleted' = deleted \cup {i}
    /\ torn' = torn \cup {j \in {i} : Busy({"edit", "react"}, i)}
    /\ End(t)
    /\ UNCHANGED <<conv, index, dms, reactions, channel, last, hidden>>

------------------------------------------------------------------------------
(* DeleteChannel and delete_channel_messages: the row, a scan of the index *)
(* as it is then, and one batch.  Reactions stay, and so does a message    *)
(* that is being sent.                                                     *)

DeleteChannel(t) ==
    /\ channel
    /\ channel' = FALSE
    /\ Begin(t, [kind |-> "clear", pc |-> "scan", left |-> {}])
    /\ UNCHANGED <<conv, messages, index, dms, reactions, history>>

ClearScan(t) ==
    /\ At(t, "clear", "scan")
    /\ op' = [op EXCEPT ![t] = [kind |-> "clear", pc |-> "batch",
                               left |-> {i \in Ids : <<"channel", i>> \in index}]]
    /\ UNCHANGED <<conv, messages, index, dms, reactions, channel, history>>

ClearBatch_MessagesOnly(t) ==
    /\ At(t, "clear", "batch")
    /\ messages' = [i \in Ids |-> IF i \in op[t].left THEN None ELSE messages[i]]
    /\ torn' = torn \cup {i \in op[t].left : Busy({"edit", "react"}, i)}
    /\ End(t)
    /\ UNCHANGED <<conv, index, dms, reactions, channel, last, deleted, hidden>>

ClearBatch(t) ==
    /\ At(t, "clear", "batch")
    /\ messages' = [i \in Ids |-> IF i \in op[t].left THEN None ELSE messages[i]]
    /\ index' = {e \in index : ~(e[1] = "channel" /\ e[2] \in op[t].left)}
    /\ torn' = torn \cup {i \in op[t].left : Busy({"edit", "react"}, i)}
    /\ End(t)
    /\ UNCHANGED <<conv, dms, reactions, channel, last, deleted, hidden>>

------------------------------------------------------------------------------
(* get_direct_messages and get_channel_messages: an iterator over the      *)
(* index as it is at the start, backwards from before, and a get for each  *)
(* entry.  before = MaxId + 1 stands for none.  Any length may be asked    *)
(* for: a negative one, cast to usize, is more than a Vec can hold, and    *)
(* the listing panics before it has read anything.                         *)

Before_Inclusive(i, before) == i <= before
Before(i, before) == i < before

ListStart(t, c, before, len) ==
    /\ c \in scope.convs
    /\ MayBegin(t, "list")
    /\ LET found == {i \in Ids : <<c, i>> \in index /\ Before(i, before)} IN
       Begin(t, [kind |-> "list", pc |-> IF found = {} THEN "done" ELSE "visit",
                 before |-> before, len |-> len,
                 found |-> found, left |-> found, page |-> <<>>])
    /\ UNCHANGED <<conv, messages, index, dms, reactions, channel, history>>

(* The length is looked at after an entry, whether it has a message or not. *)
ListVisit(t) ==
    /\ At(t, "list", "visit")
    /\ LET i == Max(op[t].left)
           left == op[t].left \ {i}
           page == IF Stored(i) THEN Append(op[t].page, i) ELSE op[t].page
           pc == IF Len(page) >= op[t].len \/ left = {} THEN "done" ELSE "visit" IN
       op' = [op EXCEPT ![t] = [op[t] EXCEPT !.pc = pc, !.left = left, !.page = page]]
    /\ UNCHANGED <<conv, messages, index, dms, reactions, channel, history>>

------------------------------------------------------------------------------

(* The handler ends before its next step: the step fails, or the task is   *)
(* dropped, or the process dies; or the listing has been answered.         *)
Stop(t) ==
    /\ op[t] # NoOp
    /\ torn' = torn \cup
           {i \in Ids : /\ op[t].kind \in {"write", "delete", "react"}
                       /\ op[t].id = i
                       /\ op[t].pc \in {"index", "key1", "key2", "remove", "put"}}
    /\ End(t)
    /\ UNCHANGED <<conv, messages, index, dms, reactions, channel, last, deleted, hidden>>

Next ==
    /\ \/ \E t \in Tasks, c \in Convs, d \in Texts : Send(t, c, d)
       \/ \E t \in Tasks, i \in Ids, d \in Texts : EditGet(t, i, d)
       \/ \E t \in Tasks, i \in Ids, u \in Users : ReactGet(t, i, u) \/ UnreactGet(t, i, u)
       \/ \E t \in Tasks, i \in Ids : DeleteGet(t, i)
       \/ \E t \in Tasks, c \in Convs, before \in 1..(MaxId + 1), len \in 0..MaxLen :
              ListStart(t, c, before, len)
       \/ \E t \in Tasks :
              \/ WritePut(t)
              \/ WriteIndex(t)
              \/ WriteKey(t)
              \/ EditPut(t)
              \/ ReactInsert(t)
              \/ ReactPut(t)
              \/ UnreactRemove(t)
              \/ DeleteReactions(t)
              \/ DeleteLookup(t)
              \/ DeleteUnindex(t)
              \/ DeleteRemove(t)
              \/ DeleteChannel(t)
              \/ ClearScan(t)
              \/ ClearBatch(t)
              \/ ListVisit(t)
              \/ Stop(t)
       \/ \E s \in Sides : RemoveDm(s)
    /\ UNCHANGED scope

Spec == Init /\ [][Next]_vars

------------------------------------------------------------------------------

(* No listing meets an entry without its message, except where a delete    *)
(* came between a message and its index entry.                             *)
IndexedIsStored ==
    \A c \in Convs, i \in Ids : <<c, i>> \in index => Stored(i) \/ i \in torn

(* A stored message is found: it is in the index of its conversation, and  *)
(* both sides list the conversation who have not removed it since.  It is  *)
(* not, while it is being written or deleted, after one of these has       *)
(* stopped half-way, and when a racing overwrite has brought it back.      *)
StoredIsListed ==
    \A i \in Ids :
        Stored(i) /\ i \notin torn /\ ~Busy({"write", "delete"}, i) =>
            /\ <<conv[i], i>> \in index
            /\ conv[i] = "direct" => Sides \ hidden \subseteq dms

(* The index lists the stored messages and no others: what a listing shows *)
(* is what a fetch by id would.                                            *)
IndexAgrees == IndexedIsStored /\ StoredIsListed

(* A message that was deleted stays so, and leaves no reactions, unless    *)
(* somebody was editing or reacting to it at the time.                     *)
DeletedIsGone ==
    \A i \in deleted \ torn : ~Stored(i) /\ \A u \in Users : <<i, u>> \notin reactions

(* A message says what its author has last made it say, and that it has    *)
(* reactions, if it has; unless a handler has put back an older version.   *)
NothingIsLost ==
    \A i \in Ids :
        Stored(i) /\ i \notin torn =>
            /\ messages[i].data = last[i]
            /\ (\E u \in Users : <<i, u>> \in reactions) =>
                   \/ messages[i].reacted
                   \/ \E t \in Tasks : At(t, "react", "put") /\ op[t].id = i

(* What a page may hold: its length is looked at after the first message.  *)
Most(len) == IF len = 0 THEN 1 ELSE len

(* A page is the newest messages before the one asked for, newest first:   *)
(* none is repeated by the page that starts where this one ends, and none  *)
(* is skipped that was listed when the page was asked for and is stored    *)
(* now, whatever is sent and deleted while it is put together.  It has as  *)
(* many as were asked for and are there, and one if none was asked for.    *)
PageIsExact(l) ==
    LET page == {l.page[k] : k \in DOMAIN l.page} IN
    /\ Len(l.page) <= Most(l.len)
    /\ \A j, k \in DOMAIN l.page : j < k => l.page[j] > l.page[k]
    /\ \A i \in page : i < l.before
    /\ \A i \in l.found : Stored(i) /\ i \notin torn =>
           \/ i \in page
           \/ Len(l.page) >= l.len /\ \A j \in page : i < j

PagesAreExact == \A t \in Tasks : At(t, "list", "done") => PageIsExact(op[t])
==============================================================================
