-------------------------- MODULE MessageStoreProofs --------------------------
(***************************************************************************)
(* MessageStore, for any number of messages and of handlers, none of which *)
(* excludes another: the index lists the stored messages, a deleted        *)
(* message stays deleted, no text and no reaction is lost, and the pages   *)
(* of a listing are exact; but for the messages in torn, which two racing  *)
(* handlers or half of one have left so.                                   *)
(***************************************************************************)
EXTENDS MessageStore, TLAPS, FiniteSetTheorems, WellFoundedInduction

(* Nothing in the store or among the handlers knows of a message that has  *)
(* not been written yet.                                                   *)
Unwritten ==
    \A i \in Ids :
        conv[i] = None \/ (\E t \in Tasks : At(t, "write", "put") /\ op[t].id = i) =>
            /\ ~Stored(i)
            /\ \A c \in Convs : <<c, i>> \notin index
            /\ \A u \in Users : <<i, u>> \notin reactions
            /\ i \notin deleted
            /\ \A s \in Tasks : op[s] # NoOp =>
                   /\ op[s].kind \in {"edit", "react", "unreact", "delete"} => op[s].id # i
                   /\ op[s].kind = "clear" => i \notin op[s].left
                   /\ op[s].kind = "list" => i \notin op[s].found

(* How far a message has got that is being written.                        *)
Writing ==
    \A t \in Tasks : op[t] # NoOp /\ op[t].kind = "write" =>
        /\ conv[op[t].id] # None
        /\ op[t].pc = "index" => Stored(op[t].id) \/ op[t].id \in torn
        /\ op[t].pc \in {"key1", "key2"} => conv[op[t].id] = "direct"
        /\ op[t].pc = "key2" => 1 \in dms \cup hidden

(* An entry of the index is made once, by the handler that has written the *)
(* message.                                                                *)
Indexed(i) ==
    \A t \in Tasks : op[t] # NoOp /\ op[t].kind = "write" /\ op[t].id = i =>
        op[t].pc \in {"key1", "key2"}

Indexing ==
    /\ \A c \in Convs, i \in Ids : <<c, i>> \in index => c = conv[i] /\ Indexed(i)
    /\ \A t \in Tasks : op[t] # NoOp /\ op[t].kind = "clear" =>
           \A i \in op[t].left : conv[i] = "channel" /\ Indexed(i)

(* What a delete has undone stays undone, or somebody else's step between  *)
(* has been noted.                                                         *)
Deletion ==
    \A t \in Tasks : op[t] # NoOp /\ op[t].kind = "delete" =>
        LET i == op[t].id IN
        \/ i \in torn
        \/ /\ op[t].pc # "reactions" => \A u \in Users : <<i, u>> \notin reactions
           /\ op[t].pc \in {"unindex", "remove"} =>
                  \A s \in Tasks : At(s, "write", "index") => op[s].id # i
           /\ op[t].pc = "remove" => <<conv[i], i>> \notin index

(* A stored message is in the index, but between the steps of one write or *)
(* delete; and both sides have it in their lists, or have removed it.      *)
Listed ==
    \A i \in Ids : Stored(i) /\ i \notin torn =>
        /\ \/ <<conv[i], i>> \in index
           \/ \E t \in Tasks : At(t, "write", "index") /\ op[t].id = i
           \/ \E t \in Tasks : At(t, "delete", "remove") /\ op[t].id = i
        /\ conv[i] = "direct" =>
               \/ Sides \subseteq dms \cup hidden
               \/ Busy({"write"}, i)

Forgotten ==
    \A i \in deleted \ torn : ~Busy({"edit", "react"}, i)

Reacting ==
    \A t \in Tasks : op[t] # NoOp /\ op[t].kind = "react" =>
        LET i == op[t].id IN
        op[t].snap.reacted /\ Stored(i) /\ i \notin torn => messages[i].reacted

(* A message says what it was last made to say, and knows that it has      *)
(* reactions, or the handler that is about to tell it does.                *)
TextsAgree ==
    \A i \in Ids : Stored(i) /\ i \notin torn => messages[i].data = last[i]

Telling(i) == \E t \in Tasks : At(t, "react", "put") /\ op[t].id = i

ReactionsAgree ==
    \A i \in Ids, u \in Users :
        Stored(i) /\ i \notin torn /\ <<i, u>> \in reactions =>
            messages[i].reacted \/ Telling(i)

(* A page is put together from the newest entry to the oldest.             *)
Paged(l) ==
    LET page == {l.page[k] : k \in DOMAIN l.page} IN
    /\ l.left \subseteq l.found
    /\ \A i \in l.found : i < l.before
    /\ page \subseteq l.found \ l.left
    /\ \A i \in l.left, j \in page : i < j
    /\ \A j, k \in DOMAIN l.page : j < k => l.page[j] > l.page[k]
    /\ \A i \in l.found \ (l.left \cup page) : Stored(i) => i \in torn
    /\ Len(l.page) <= Most(l.len)
    /\ IF l.pc = "visit" THEN Len(l.page) < Most(l.len) /\ l.left # {}
       ELSE Len(l.page) >= l.len \/ l.left = {}

Paging == \A t \in Tasks : op[t] # NoOp /\ op[t].kind = "list" => Paged(op[t])

FInv ==
    /\ Unwritten
    /\ Writing
    /\ Indexing
    /\ Deletion
    /\ Listed
    /\ Forgotten
    /\ Reacting
    /\ TextsAgree
    /\ ReactionsAgree
    /\ Paging
    /\ DeletedIsGone
    /\ IndexedIsStored

IInv == TypeOK /\ FInv

------------------------------------------------------------------------------
(* Operators *)

(* it.next() of an iterator that runs backwards: the highest id first.     *)
LEMMA MaxIsElement ==
    ASSUME NEW n \in Nat, NEW S, S \subseteq 1..n, S # {}
    PROVE  Max(S) \in S /\ \A x \in S : x <= Max(S)
  <1> DEFINE T == {m \in Nat : \A x \in S : x <= m}
  <1>1. T \subseteq Nat /\ T # {}
    OBVIOUS
  <1>2. PICK m \in T : \A y \in T : ~ (<<y, m>> \in OpToRel(<, Nat))
    BY <1>1, NatLessThanWellFounded, WFMin, Zenon
  <1>3. \A y \in T : ~ (y < m)
    BY <1>2 DEF OpToRel
  <1>4. m \in S
    <2> SUFFICES ASSUME m \notin S PROVE FALSE
      OBVIOUS
    <2>1. PICK x \in S : TRUE
      OBVIOUS
    <2>2. m > 0
      BY <2>1
    <2>3. m - 1 \in T
      BY <2>2
    <2> QED
      BY <2>3, <1>3
  <1>5. \E x \in S : \A y \in S : x >= y
    BY <1>4
  <1> QED
    BY <1>5 DEF Max

(* put *)
LEMMA Puts ==
    ASSUME TypeOK, NEW i \in Ids, NEW m \in Message, messages' = [messages EXCEPT ![i] = m]
    PROVE  /\ messages' \in [Ids -> Message \cup {None}]
           /\ messages'[i] # None /\ messages'[i] = m
           /\ \A j \in Ids : j # i => messages'[j] = messages[j]
  BY ValuesApart DEF TypeOK, Stored

(* page.push(message): a page in descending order stays so.                *)
LEMMA PageGrows ==
    ASSUME NEW page \in Seq(Ids), NEW i \in Ids,
           \A k \in DOMAIN page : i < page[k],
           \A j, k \in DOMAIN page : j < k => page[j] > page[k]
    PROVE  LET next == Append(page, i) IN
           /\ Len(next) = Len(page) + 1
           /\ {next[k] : k \in DOMAIN next} = {page[k] : k \in DOMAIN page} \cup {i}
           /\ \A j, k \in DOMAIN next : j < k => next[j] > next[k]
  <1> DEFINE next == Append(page, i)
  <1>1. /\ DOMAIN page = 1..Len(page)
        /\ DOMAIN next = 1..(Len(page) + 1)
        /\ Len(next) = Len(page) + 1 /\ Len(page) \in Nat
        /\ \A k \in DOMAIN page : next[k] = page[k]
        /\ next[Len(page) + 1] = i
    OBVIOUS
  <1> HIDE DEF next
  <1>2. {next[k] : k \in DOMAIN next} = {page[k] : k \in DOMAIN page} \cup {i}
    BY <1>1
  <1>3. ASSUME NEW j \in DOMAIN next, NEW k \in DOMAIN next, j < k
        PROVE  next[j] > next[k]
    <2>1. j \in DOMAIN page /\ page[j] \in Int /\ i \in Int
      BY <1>1, <1>3, MessageStoreAssumption DEF Ids
    <2>2. CASE k \in DOMAIN page
      BY <1>1, <1>3, <2>1, <2>2
    <2>3. CASE k \notin DOMAIN page
      <3>1. k = Len(page) + 1
        BY <1>1, <2>3
      <3> QED
        BY <1>1, <2>1, <3>1
    <2> QED
      BY <2>2, <2>3
  <1> QED
    BY <1>1, <1>2, <1>3 DEF next

(* What the kind of a handler says of what it remembers.                   *)
LEMMA Kinds ==
    ASSUME TypeOK, NEW t \in Tasks, op[t] # NoOp
    PROVE  /\ op[t] \in Op \cup ListOp
           /\ op[t].kind \in {"write", "edit", "react", "unreact", "delete", "clear", "list"}
           /\ op[t].kind = "write" => /\ op[t].pc \in {"put", "index", "key1", "key2"}
                                      /\ op[t].id \in Ids /\ op[t].data \in Texts
           /\ op[t].kind = "edit" => /\ op[t].pc = "put" /\ op[t].id \in Ids
                                     /\ op[t].snap \in Message /\ op[t].data \in Texts
           /\ op[t].kind = "react" => /\ op[t].pc \in {"insert", "put"} /\ op[t].id \in Ids
                                      /\ op[t].snap \in Message /\ op[t].user \in Users
           /\ op[t].kind = "unreact" => /\ op[t].pc = "remove" /\ op[t].id \in Ids
                                        /\ op[t].user \in Users
           /\ op[t].kind = "delete" =>
                  op[t].pc \in {"reactions", "lookup", "unindex", "remove"} /\ op[t].id \in Ids
           /\ op[t].kind = "clear" => op[t].pc \in {"scan", "batch"} /\ op[t].left \subseteq Ids
           /\ op[t].kind = "list" => op[t] \in ListOp
  BY DEF TypeOK, Op, ListOp

(* A handler puts a message, new or changed.                               *)
LEMMA Overwrites ==
    ASSUME TypeOK, NEW t \in Tasks, WritePut(t) \/ EditPut(t) \/ ReactPut(t)
    PROVE  LET i == op[t].id IN
           /\ i \in Ids
           /\ messages' \in [Ids -> Message \cup {None}]
           /\ messages'[i] # None
           /\ \A j \in Ids : j # i => messages'[j] = messages[j]
  <1> DEFINE i == op[t].id
             text == [data |-> op[t].data, reacted |-> FALSE]
             edited == Edited(op[t].snap, op[t].data)
             marked == [op[t].snap EXCEPT !.reacted = TRUE]
  <1>1. CASE WritePut(t)
    <2>1. i \in Ids /\ op[t].data \in Texts
      BY <1>1, Kinds DEF WritePut, At
    <2>2. text \in Message
      BY <2>1 DEF Message
    <2>3. messages' = [messages EXCEPT ![i] = text]
      BY <1>1 DEF WritePut
    <2> HIDE DEF i, text
    <2>4. /\ messages' \in [Ids -> Message \cup {None}]
          /\ messages'[i] # None
          /\ \A j \in Ids : j # i => messages'[j] = messages[j]
      BY <2>1, <2>2, <2>3, Puts
    <2> QED
      BY <2>1, <2>4 DEF i
  <1>2. CASE EditPut(t)
    <2>1. i \in Ids /\ op[t].snap \in Message /\ op[t].data \in Texts
      BY <1>2, Kinds DEF EditPut, At
    <2>2. edited \in Message
      BY <2>1 DEF Message, Edited
    <2>3. messages' = [messages EXCEPT ![i] = edited]
      BY <1>2 DEF EditPut
    <2> HIDE DEF i, edited
    <2>4. /\ messages' \in [Ids -> Message \cup {None}]
          /\ messages'[i] # None
          /\ \A j \in Ids : j # i => messages'[j] = messages[j]
      BY <2>1, <2>2, <2>3, Puts
    <2> QED
      BY <2>1, <2>4 DEF i
  <1>3. CASE ReactPut(t)
    <2>1. i \in Ids /\ op[t].snap \in Message
      BY <1>3, Kinds DEF ReactPut, At
    <2>2. marked \in Message
      BY <2>1 DEF Message
    <2>3. messages' = [messages EXCEPT ![i] = marked]
      BY <1>3 DEF ReactPut
    <2> HIDE DEF i, marked
    <2>4. /\ messages' \in [Ids -> Message \cup {None}]
          /\ messages'[i] # None
          /\ \A j \in Ids : j # i => messages'[j] = messages[j]
      BY <2>1, <2>2, <2>3, Puts
    <2> QED
      BY <2>1, <2>4 DEF i
  <1> QED
    BY <1>1, <1>2, <1>3

(* An edit or a reaction puts back what it has read, changed.              *)
LEMMA PutsBack ==
    ASSUME TypeOK, NEW t \in Tasks, EditPut(t) \/ ReactPut(t)
    PROVE  LET i == op[t].id IN
           /\ i \in Ids
           /\ At(t, "edit", "put") \/ At(t, "react", "put")
           /\ messages' \in [Ids -> Message \cup {None}]
           /\ messages'[i] # None
           /\ \A j \in Ids : j # i => messages'[j] = messages[j]
           /\ last' \in [Ids -> Texts \cup {None}]
           /\ op' = [op EXCEPT ![t] = NoOp]
           /\ torn \subseteq torn' /\ torn' \subseteq torn \cup {i}
           /\ ~Stored(i) => i \in torn'
           /\ UNCHANGED <<conv, index, dms, reactions, channel, deleted, hidden>>
  <1> DEFINE i == op[t].id
  <1>1. CASE EditPut(t)
    <2>1. /\ op[t].data \in Texts /\ At(t, "edit", "put")
          /\ last' = [last EXCEPT ![i] = op[t].data]
          /\ torn' = torn \cup {j \in {i} :
                         Stored(i) => messages[i].reacted # op[t].snap.reacted}
          /\ op' = [op EXCEPT ![t] = NoOp]
          /\ UNCHANGED <<conv, index, dms, reactions, channel, deleted, hidden>>
      BY <1>1, Kinds DEF EditPut, At, End
    <2> QED
      BY <1>1, <2>1, Overwrites DEF TypeOK
  <1>2. CASE ReactPut(t)
    <2>1. /\ At(t, "react", "put")
          /\ torn' = torn \cup {j \in {i} : Stored(i) => messages[i].data # op[t].snap.data}
          /\ op' = [op EXCEPT ![t] = NoOp]
          /\ UNCHANGED <<conv, index, dms, reactions, channel, deleted, hidden, last>>
      BY <1>2 DEF ReactPut, At, End
    <2> QED
      BY <1>2, <2>1, Overwrites DEF TypeOK
  <1> QED
    BY <1>1, <1>2

(* A handler goes on to its next step.                                     *)
LEMMA GoesTo ==
    ASSUME TypeOK, NEW t \in Tasks, NEW pc, GoTo(t, pc), op[t] # NoOp,
           \/ op[t].kind = "write" /\ pc \in {"index", "key1", "key2"}
           \/ op[t].kind = "react" /\ pc = "put"
           \/ op[t].kind = "delete" /\ pc \in {"lookup", "unindex", "remove"}
    PROVE  /\ op' \in [Tasks -> Op \cup ListOp \cup {NoOp}]
           /\ op'[t] # NoOp /\ op'[t].kind = op[t].kind
           /\ op'[t].pc = pc /\ op'[t].id = op[t].id
           /\ op[t].kind = "write" => op'[t].data = op[t].data
           /\ op[t].kind = "react" => op'[t].snap = op[t].snap /\ op'[t].user = op[t].user
           /\ \A s \in Tasks : s # t => op'[s] = op[s]
  <1> DEFINE new == [op[t] EXCEPT !.pc = pc]
  <1>1. op' = [op EXCEPT ![t] = new]
    BY DEF GoTo
  <1>2. CASE op[t].kind = "write"
    <2> DEFINE Kind == [kind : {"write"}, pc : {"put", "index", "key1", "key2"},
                        id : Ids, data : Texts]
    <2>1. op[t] \in Kind
      BY <1>2 DEF TypeOK, Op, ListOp
    <2>2. /\ new \in Kind
          /\ new.pc = pc /\ new.id = op[t].id /\ new.data = op[t].data /\ new.kind = "write"
      BY <1>2, <2>1
    <2>3. new \in Op
      BY <2>2 DEF Op
    <2> HIDE DEF new
    <2> QED
      BY <1>1, <1>2, <2>2, <2>3, ValuesApart DEF TypeOK
  <1>3. CASE op[t].kind = "react"
    <2> DEFINE Kind == [kind : {"react"}, pc : {"insert", "put"}, id : Ids,
                        snap : Message, user : Users]
    <2>1. op[t] \in Kind
      BY <1>3 DEF TypeOK, Op, ListOp
    <2>2. /\ new \in Kind
          /\ new.pc = pc /\ new.id = op[t].id /\ new.snap = op[t].snap /\ new.kind = "react"
          /\ new.user = op[t].user
      BY <1>3, <2>1
    <2>3. new \in Op
      BY <2>2 DEF Op
    <2> HIDE DEF new
    <2> QED
      BY <1>1, <1>3, <2>2, <2>3, ValuesApart DEF TypeOK
  <1>4. CASE op[t].kind = "delete"
    <2> DEFINE Kind == [kind : {"delete"},
                        pc : {"reactions", "lookup", "unindex", "remove"}, id : Ids]
    <2>1. op[t] \in Kind
      BY <1>4 DEF TypeOK, Op, ListOp
    <2>2. /\ new \in Kind
          /\ new.pc = pc /\ new.id = op[t].id /\ new.kind = "delete"
      BY <1>4, <2>1
    <2>3. new \in Op
      BY <2>2 DEF Op
    <2> HIDE DEF new
    <2> QED
      BY <1>1, <1>4, <2>2, <2>3, ValuesApart DEF TypeOK
  <1> QED
    BY <1>2, <1>3, <1>4

(* The next entry of a listing *)
LEMMA Visits ==
    ASSUME IInv, NEW t \in Tasks, ListVisit(t)
    PROVE  \E i \in Ids :
           /\ op' \in [Tasks -> Op \cup ListOp \cup {NoOp}]
           /\ op'[t] \in ListOp /\ op'[t] # NoOp
           /\ op'[t].kind = "list"
           /\ op'[t].found = op[t].found
           /\ op'[t].before = op[t].before
           /\ op'[t].len = op[t].len
           /\ op'[t].left = op[t].left \ {i}
           /\ op'[t].page = IF Stored(i) THEN Append(op[t].page, i) ELSE op[t].page
           /\ op'[t].pc = IF Len(op'[t].page) >= op[t].len \/ op'[t].left = {}
                          THEN "done" ELSE "visit"
           /\ i \in op[t].left /\ \A j \in op[t].left : j <= i
           /\ UNCHANGED <<conv, messages, index, dms, reactions, channel, last, deleted,
                          hidden, torn>>
           /\ \A s \in Tasks : s # t => op'[s] = op[s]
  <1> DEFINE l == op[t]
             i == Max(l.left)
             left == l.left \ {i}
             page == IF Stored(i) THEN Append(l.page, i) ELSE l.page
             pc == IF Len(page) >= l.len \/ left = {} THEN "done" ELSE "visit"
             new == [l EXCEPT !.pc = pc, !.left = left, !.page = page]
  <1>0. TypeOK /\ Paging
    BY DEF IInv, FInv
  <1>1. l \in ListOp /\ l # NoOp /\ l.kind = "list" /\ l.pc = "visit"
    BY <1>0, Kinds DEF ListVisit, At
  <1>2. l.left \subseteq Ids /\ l.left # {}
    BY <1>0, <1>1 DEF Paging, Paged, ListOp
  <1>3. i \in l.left /\ i \in Ids /\ \A j \in l.left : j <= i
    BY <1>2, MaxIsElement, MessageStoreAssumption DEF Ids
  <1>4. page \in Seq(Ids)
    BY <1>1, <1>3 DEF ListOp
  <1>5. op' = [op EXCEPT ![t] = new]
    BY DEF ListVisit
  <1> HIDE DEF i, page
  <1>6. /\ new \in ListOp /\ new.kind = "list" /\ new.found = l.found /\ new.before = l.before
        /\ new.len = l.len /\ new.left = left /\ new.page = page /\ new.pc = pc
    BY <1>1, <1>2, <1>4 DEF ListOp
  <1> HIDE DEF new
  <1>7. op'[t] = new /\ \A s \in Tasks : s # t => op'[s] = op[s]
    BY <1>0, <1>5 DEF TypeOK
  <1>8. op' \in [Tasks -> Op \cup ListOp \cup {NoOp}]
    BY <1>0, <1>5, <1>6 DEF TypeOK
  <1>9. UNCHANGED <<conv, messages, index, dms, reactions, channel, last, deleted,
                    hidden, torn>>
    BY DEF ListVisit, history
  <1> QED
    <2>1. op'[t] \in ListOp /\ op'[t] # NoOp
      BY <1>6, <1>7, ValuesApart
    <2> QED
      BY <1>3, <1>6, <1>7, <1>8, <1>9, <2>1 DEF page

LEMMA TypesKept ==
    ASSUME IInv, Next
    PROVE  TypeOK'
  <1> USE Kinds, ValuesApart DEF IInv, FInv, TypeOK, Op, Writing, Message, Stored, At, history
  <1>0. UNCHANGED scope
    BY DEF Next
  <1>1. ASSUME NEW t \in Tasks, NEW c \in Convs, NEW d \in Texts, Send(t, c, d)
        PROVE  TypeOK'
    BY <1>0, <1>1 DEF Send, Fresh, Begin, MayBegin
  <1>2. ASSUME NEW t \in Tasks, WritePut(t)
        PROVE  TypeOK'
    BY <1>0, <1>2, GoesTo DEF WritePut
  <1>3. ASSUME NEW t \in Tasks, WriteIndex(t)
        PROVE  TypeOK'
    BY <1>0, <1>3, GoesTo DEF WriteIndex, End
  <1>4. ASSUME NEW t \in Tasks, WriteKey(t)
        PROVE  TypeOK'
    BY <1>0, <1>4, GoesTo DEF WriteKey, End
  <1>5. ASSUME NEW s \in Sides, RemoveDm(s)
        PROVE  TypeOK'
    BY <1>0, <1>5 DEF RemoveDm
  <1>6. ASSUME NEW t \in Tasks, NEW i \in Ids, NEW d \in Texts, EditGet(t, i, d)
        PROVE  TypeOK'
    BY <1>0, <1>6 DEF EditGet, Begin, MayBegin
  <1>7. ASSUME NEW t \in Tasks, EditPut(t)
        PROVE  TypeOK'
    BY <1>0, <1>7 DEF EditPut, Edited, End
  <1>8. ASSUME NEW t \in Tasks, NEW i \in Ids, NEW u \in Users, ReactGet(t, i, u)
        PROVE  TypeOK'
    BY <1>0, <1>8 DEF ReactGet, Begin, MayBegin
  <1>9. ASSUME NEW t \in Tasks, ReactInsert(t)
        PROVE  TypeOK'
    BY <1>0, <1>9, GoesTo DEF ReactInsert, End, Deleting
  <1>10. ASSUME NEW t \in Tasks, ReactPut(t)
        PROVE  TypeOK'
    BY <1>0, <1>10, PutsBack
  <1>11. ASSUME NEW t \in Tasks, NEW i \in Ids, NEW u \in Users, UnreactGet(t, i, u)
        PROVE  TypeOK'
    BY <1>0, <1>11 DEF UnreactGet, Begin, MayBegin
  <1>12. ASSUME NEW t \in Tasks, UnreactRemove(t)
        PROVE  TypeOK'
    BY <1>0, <1>12 DEF UnreactRemove, End
  <1>13. ASSUME NEW t \in Tasks, NEW i \in Ids, DeleteGet(t, i)
        PROVE  TypeOK'
    BY <1>0, <1>13 DEF DeleteGet, Begin, MayBegin
  <1>14. ASSUME NEW t \in Tasks, DeleteReactions(t)
        PROVE  TypeOK'
    BY <1>0, <1>14, GoesTo DEF DeleteReactions
  <1>15. ASSUME NEW t \in Tasks, DeleteLookup(t)
        PROVE  TypeOK'
    BY <1>0, <1>15, GoesTo DEF DeleteLookup, End
  <1>16. ASSUME NEW t \in Tasks, DeleteUnindex(t)
        PROVE  TypeOK'
    BY <1>0, <1>16, GoesTo DEF DeleteUnindex
  <1>17. ASSUME NEW t \in Tasks, DeleteRemove(t)
        PROVE  TypeOK'
    BY <1>0, <1>17 DEF DeleteRemove, End
  <1>18. ASSUME NEW t \in Tasks, DeleteChannel(t)
        PROVE  TypeOK'
    <2> DEFINE new == [kind |-> "clear", pc |-> "scan", left |-> {}]
    <2>1. new \in Op /\ new.kind = "clear"
      BY DEF Op
    <2>2. op' = [op EXCEPT ![t] = new]
      BY <1>18 DEF DeleteChannel, Begin
    <2> HIDE DEF new
    <2> QED
      BY ZenonT(40), <1>0, <1>18, <2>1, <2>2 DEF DeleteChannel
  <1>19. ASSUME NEW t \in Tasks, ClearScan(t)
        PROVE  TypeOK'
    BY <1>0, <1>19 DEF ClearScan
  <1>20. ASSUME NEW t \in Tasks, ClearBatch(t)
        PROVE  TypeOK'
    BY <1>0, <1>20 DEF ClearBatch, End
  <1>21. ASSUME NEW t \in Tasks, NEW c \in Convs, NEW before \in 1..(MaxId + 1),
               NEW len \in 0..MaxLen, ListStart(t, c, before, len)
        PROVE  TypeOK'
    <2>1. PICK new \in ListOp : new.kind = "list" /\ op' = [op EXCEPT ![t] = new]
      <3> DEFINE found == {i \in Ids : <<c, i>> \in index /\ Before(i, before)}
                 new == [kind |-> "list", pc |-> IF found = {} THEN "done" ELSE "visit",
                         before |-> before, len |-> len, found |-> found, left |-> found,
                         page |-> <<>>]
      <3>1. op' = [op EXCEPT ![t] = new]
        BY <1>21 DEF ListStart, Begin
      <3>2. found \subseteq Ids
        OBVIOUS
      <3> HIDE DEF found
      <3>3. new \in ListOp /\ new.kind = "list"
        BY <3>2 DEF ListOp
      <3> HIDE DEF new
      <3> QED
        BY <3>1, <3>3
    <2> QED
      BY <1>0, <1>21, <2>1 DEF ListStart
  <1>22. ASSUME NEW t \in Tasks, ListVisit(t)
        PROVE  TypeOK'
    BY <1>0, <1>22, Visits
  <1>23. ASSUME NEW t \in Tasks, Stop(t)
        PROVE  TypeOK'
    BY <1>0, <1>23 DEF Stop, End
  <1> QED
    BY <1>1, <1>2, <1>3, <1>4, <1>5, <1>6, <1>7, <1>8, <1>9, <1>10, <1>11, <1>12,
       <1>13, <1>14, <1>15, <1>16, <1>17, <1>18, <1>19, <1>20, <1>21, <1>22, <1>23 DEF Next

LEMMA WritesKept ==
    ASSUME IInv, Next
    PROVE  Unwritten' /\ Writing' /\ Indexing'
  <1> USE Kinds, ValuesApart DEF IInv, FInv, TypeOK, Unwritten, Writing, Indexing, Indexed,
      Stored, At, history
  <1>0. UNCHANGED scope
    BY DEF Next
  <1>1. ASSUME NEW t \in Tasks, NEW c \in Convs, NEW d \in Texts, Send(t, c, d)
        PROVE  Unwritten' /\ Writing' /\ Indexing'
    BY <1>0, <1>1 DEF Send, Fresh, Begin, MayBegin
  <1>2. ASSUME NEW t \in Tasks, WritePut(t)
        PROVE  Unwritten' /\ Writing' /\ Indexing'
    <2>1. Unwritten'
      BY <1>0, <1>2, Overwrites, GoesTo DEF WritePut
    <2>2. Writing'
      <3> SUFFICES ASSUME NEW s \in Tasks, op'[s] # NoOp, op'[s].kind = "write"
                   PROVE  /\ conv'[op'[s].id] # None
                          /\ op'[s].pc = "index" =>
                                 messages'[op'[s].id] # None \/ op'[s].id \in torn'
                          /\ op'[s].pc \in {"key1", "key2"} => conv'[op'[s].id] = "direct"
                          /\ op'[s].pc = "key2" => 1 \in dms' \cup hidden'
        OBVIOUS
      <3>1. CASE s = t
        <4>1. At(t, "write", "put") /\ GoTo(t, "index") /\ conv' = conv
          BY <1>2 DEF WritePut
        <4>2. op'[t].pc = "index" /\ op'[t].id = op[t].id
          BY <4>1, GoesTo
        <4>3. op[t].id \in Ids /\ messages'[op[t].id] # None
          BY <1>2, Overwrites
        <4> QED
          BY <3>1, <4>1, <4>2, <4>3
      <3>2. CASE s # t
        BY <1>2, <3>2, Overwrites, GoesTo DEF WritePut
      <3> QED
        BY <3>1, <3>2
    <2>3. Indexing'
      BY <1>0, <1>2, Overwrites, GoesTo DEF WritePut
    <2> QED
      BY <2>1, <2>2, <2>3
  <1>3. ASSUME NEW t \in Tasks, WriteIndex(t)
        PROVE  Unwritten' /\ Writing' /\ Indexing'
    BY SMTT(30), <1>0, <1>3, GoesTo DEF WriteIndex, End
  <1>4. ASSUME NEW t \in Tasks, WriteKey(t)
        PROVE  Unwritten' /\ Writing' /\ Indexing'
    BY <1>0, <1>4, GoesTo DEF WriteKey, End
  <1>5. ASSUME NEW s \in Sides, RemoveDm(s)
        PROVE  Unwritten' /\ Writing' /\ Indexing'
    BY <1>0, <1>5 DEF RemoveDm
  <1>6. ASSUME NEW t \in Tasks, NEW i \in Ids, NEW d \in Texts, EditGet(t, i, d)
        PROVE  Unwritten' /\ Writing' /\ Indexing'
    BY <1>0, <1>6 DEF EditGet, Begin, MayBegin
  <1>7. ASSUME NEW t \in Tasks, EditPut(t)
        PROVE  Unwritten' /\ Writing' /\ Indexing'
    <2>1. Unwritten'
      BY <1>0, <1>7, PutsBack
    <2>2. Writing'
      BY <1>0, <1>7, PutsBack
    <2>3. Indexing'
      BY <1>0, <1>7, PutsBack
    <2> QED
      BY <2>1, <2>2, <2>3
  <1>8. ASSUME NEW t \in Tasks, NEW i \in Ids, NEW u \in Users, ReactGet(t, i, u)
        PROVE  Unwritten' /\ Writing' /\ Indexing'
    BY <1>0, <1>8 DEF ReactGet, Begin, MayBegin
  <1>9. ASSUME NEW t \in Tasks, ReactInsert(t)
        PROVE  Unwritten' /\ Writing' /\ Indexing'
    BY SMTT(30), <1>0, <1>9, GoesTo DEF ReactInsert, End, Deleting
  <1>10. ASSUME NEW t \in Tasks, ReactPut(t)
        PROVE  Unwritten' /\ Writing' /\ Indexing'
    <2>1. Unwritten'
      BY <1>0, <1>10, PutsBack
    <2>2. Writing'
      BY <1>0, <1>10, PutsBack
    <2>3. Indexing'
      BY <1>0, <1>10, PutsBack
    <2> QED
      BY <2>1, <2>2, <2>3
  <1>11. ASSUME NEW t \in Tasks, NEW i \in Ids, NEW u \in Users, UnreactGet(t, i, u)
        PROVE  Unwritten' /\ Writing' /\ Indexing'
    BY <1>0, <1>11 DEF UnreactGet, Begin, MayBegin
  <1>12. ASSUME NEW t \in Tasks, UnreactRemove(t)
        PROVE  Unwritten' /\ Writing' /\ Indexing'
    BY <1>0, <1>12 DEF UnreactRemove, End
  <1>13. ASSUME NEW t \in Tasks, NEW i \in Ids, DeleteGet(t, i)
        PROVE  Unwritten' /\ Writing' /\ Indexing'
    BY <1>0, <1>13 DEF DeleteGet, Begin, MayBegin
  <1>14. ASSUME NEW t \in Tasks, DeleteReactions(t)
        PROVE  Unwritten' /\ Writing' /\ Indexing'
    BY <1>0, <1>14, GoesTo DEF DeleteReactions
  <1>15. ASSUME NEW t \in Tasks, DeleteLookup(t)
        PROVE  Unwritten' /\ Writing' /\ Indexing'
    BY <1>0, <1>15, GoesTo DEF DeleteLookup, End
  <1>16. ASSUME NEW t \in Tasks, DeleteUnindex(t)
        PROVE  Unwritten' /\ Writing' /\ Indexing'
    BY <1>0, <1>16, GoesTo DEF DeleteUnindex
  <1>17. ASSUME NEW t \in Tasks, DeleteRemove(t)
        PROVE  Unwritten' /\ Writing' /\ Indexing'
    <2> DEFINE d == op[t].id
    <2>0. /\ d \in Ids /\ messages'[d] = None
          /\ \A j \in Ids : j # d => messages'[j] = messages[j]
          /\ op'[t] = NoOp /\ \A s \in Tasks : s # t => op'[s] = op[s]
      BY <1>17 DEF DeleteRemove, End
    <2>1. Unwritten'
      BY <1>0, <1>17, <2>0 DEF DeleteRemove
    <2>2. Writing'
      <3>1. \/ d \in torn
            \/ \A s \in Tasks : At(s, "write", "index") => op[s].id # d
        BY <1>17 DEF DeleteRemove, Deletion
      <3>2. torn \subseteq torn' /\ UNCHANGED <<conv, dms, hidden>>
        BY <1>17 DEF DeleteRemove
      <3> QED
        BY <2>0, <3>1, <3>2
    <2>3. Indexing'
      BY <1>0, <1>17, <2>0 DEF DeleteRemove
    <2> QED
      BY <2>1, <2>2, <2>3
  <1>18. ASSUME NEW t \in Tasks, DeleteChannel(t)
        PROVE  Unwritten' /\ Writing' /\ Indexing'
    BY <1>0, <1>18 DEF DeleteChannel, Begin, MayBegin
  <1>19. ASSUME NEW t \in Tasks, ClearScan(t)
        PROVE  Unwritten' /\ Writing' /\ Indexing'
    <2> DEFINE found == {i \in Ids : <<"channel", i>> \in index}
               new == [kind |-> "clear", pc |-> "batch", left |-> found]
    <2>1. op' = [op EXCEPT ![t] = new]
      BY <1>19 DEF ClearScan
    <2>2. found \subseteq Ids /\ \A i \in found : <<"channel", i>> \in index
      OBVIOUS
    <2> HIDE DEF found
    <2>3. new \in Op /\ new.kind = "clear" /\ new.left = found
      BY <2>2 DEF Op
    <2> HIDE DEF new
    <2>4. Unwritten'
      BY <1>0, <1>19, <2>1, <2>2, <2>3 DEF ClearScan
    <2>5. Writing'
      BY <1>0, <1>19, <2>1, <2>2, <2>3 DEF ClearScan
    <2>6. Indexing'
      <3>1. \A i \in Ids : Indexed(i) => Indexed(i)'
        BY <1>19, <2>1, <2>3 DEF ClearScan
      <3> HIDE DEF Indexed
      <3>2. \A i \in found : conv[i] = "channel" /\ Indexed(i)
        BY <2>2 DEF Convs
      <3>3. op'[t] = new /\ \A s \in Tasks : s # t => op'[s] = op[s]
        BY <2>1
      <3>4. UNCHANGED <<conv, index>>
        BY <1>19 DEF ClearScan
      <3> QED
        BY <2>2, <2>3, <3>1, <3>2, <3>3, <3>4
    <2> QED
      BY <2>4, <2>5, <2>6
  <1>20. ASSUME NEW t \in Tasks, ClearBatch(t)
        PROVE  Unwritten' /\ Writing' /\ Indexing'
    BY <1>0, <1>20 DEF ClearBatch, End
  <1>21. ASSUME NEW t \in Tasks, NEW c \in Convs, NEW before \in 1..(MaxId + 1),
               NEW len \in 0..MaxLen, ListStart(t, c, before, len)
        PROVE  Unwritten' /\ Writing' /\ Indexing'
    BY <1>0, <1>21 DEF ListStart, Before, Begin, MayBegin
  <1>22. ASSUME NEW t \in Tasks, ListVisit(t)
        PROVE  Unwritten' /\ Writing' /\ Indexing'
    <2>1. Unwritten'
      <3>1. PICK n \in Ids :
                /\ op'[t] # NoOp /\ op'[t].kind = "list" /\ op'[t].found = op[t].found
                /\ \A s \in Tasks : s # t => op'[s] = op[s]
                /\ UNCHANGED <<conv, messages, index, reactions, deleted>>
        BY <1>22, Visits
      <3>2. op[t] # NoOp /\ op[t].kind = "list"
        BY <1>22 DEF ListVisit
      <3> QED
        BY <1>22, <3>1, <3>2
    <2>2. Writing'
      BY <1>0, <1>22, Visits
    <2>3. Indexing'
      BY <1>0, <1>22, Visits
    <2> QED
      BY <2>1, <2>2, <2>3
  <1>23. ASSUME NEW t \in Tasks, Stop(t)
        PROVE  Unwritten' /\ Writing' /\ Indexing'
    BY <1>0, <1>23 DEF Stop, End
  <1> QED
    BY <1>1, <1>2, <1>3, <1>4, <1>5, <1>6, <1>7, <1>8, <1>9, <1>10, <1>11, <1>12,
       <1>13, <1>14, <1>15, <1>16, <1>17, <1>18, <1>19, <1>20, <1>21, <1>22, <1>23 DEF Next

LEMMA DeletesKept ==
    ASSUME IInv, Next
    PROVE  Deletion' /\ Listed'
  <1> USE Kinds, ValuesApart DEF IInv, FInv, TypeOK, Deletion, Listed, Busy, Writing,
      Indexing, Indexed, Unwritten, Stored, At, history
  <1>0. UNCHANGED scope
    BY DEF Next
  <1>1. ASSUME NEW t \in Tasks, NEW c \in Convs, NEW d \in Texts, Send(t, c, d)
        PROVE  Deletion' /\ Listed'
    BY <1>0, <1>1 DEF Send, Fresh, Begin, MayBegin
  <1>2. ASSUME NEW t \in Tasks, WritePut(t)
        PROVE  Deletion' /\ Listed'
    <2>1. Deletion'
      BY <1>0, <1>2, Overwrites, GoesTo DEF WritePut
    <2>2. Listed'
      BY SMTT(30), <1>0, <1>2, Overwrites, GoesTo DEF WritePut
    <2> QED
      BY <2>1, <2>2
  <1>3. ASSUME NEW t \in Tasks, WriteIndex(t)
        PROVE  Deletion' /\ Listed'
    <2>1. Deletion'
      BY <1>0, <1>3, GoesTo DEF WriteIndex, End
    <2>2. Listed'
      BY SMTT(30), <1>0, <1>3, GoesTo DEF WriteIndex, End
    <2> QED
      BY <2>1, <2>2
  <1>4. ASSUME NEW t \in Tasks, WriteKey(t)
        PROVE  Deletion' /\ Listed'
    <2>1. Deletion'
      BY <1>0, <1>4, GoesTo DEF WriteKey, End
    <2>2. Listed'
      <3> SUFFICES ASSUME NEW i \in Ids, messages'[i] # None, i \notin torn'
                   PROVE  /\ \/ <<conv'[i], i>> \in index'
                             \/ \E s \in Tasks : At(s, "write", "index")' /\ op'[s].id = i
                             \/ \E s \in Tasks : At(s, "delete", "remove")' /\ op'[s].id = i
                          /\ conv'[i] = "direct" =>
                                 Sides \subseteq dms' \cup hidden' \/ Busy({"write"}, i)'
        OBVIOUS
      <3>1. /\ op[t] # NoOp /\ op[t].kind = "write" /\ op[t].pc \in {"key1", "key2"}
            /\ \A s \in Tasks : s # t => op'[s] = op[s]
            /\ UNCHANGED <<conv, messages, index, torn>>
        BY <1>4 DEF WriteKey, End, GoTo
      <3>2. PICK s \in Sides :
                /\ op[t].pc = IF s = 1 THEN "key1" ELSE "key2"
                /\ dms' = dms \cup {s} /\ hidden' = hidden \ {s}
                /\ IF s = 1 THEN GoTo(t, "key2") ELSE End(t)
        BY <1>4 DEF WriteKey
      <3>3. dms \cup hidden \subseteq dms' \cup hidden'
        BY <3>2
      <3>4. s = 1 => op'[t] # NoOp /\ op'[t].kind = "write" /\ op'[t].id = op[t].id
        BY <3>1, <3>2, GoesTo
      <3>5. s = 2 => Sides \subseteq dms' \cup hidden'
        BY <3>1, <3>2 DEF Sides
      <3> QED
        BY <3>1, <3>2, <3>3, <3>4, <3>5 DEF Sides
    <2> QED
      BY <2>1, <2>2
  <1>5. ASSUME NEW s \in Sides, RemoveDm(s)
        PROVE  Deletion' /\ Listed'
    BY <1>0, <1>5 DEF RemoveDm
  <1>6. ASSUME NEW t \in Tasks, NEW i \in Ids, NEW d \in Texts, EditGet(t, i, d)
        PROVE  Deletion' /\ Listed'
    BY <1>0, <1>6 DEF EditGet, Begin, MayBegin
  <1>7. ASSUME NEW t \in Tasks, EditPut(t)
        PROVE  Deletion' /\ Listed'
    BY <1>0, <1>7 DEF EditPut, Edited, End
  <1>8. ASSUME NEW t \in Tasks, NEW i \in Ids, NEW u \in Users, ReactGet(t, i, u)
        PROVE  Deletion' /\ Listed'
    BY <1>0, <1>8 DEF ReactGet, Begin, MayBegin
  <1>9. ASSUME NEW t \in Tasks, ReactInsert(t)
        PROVE  Deletion' /\ Listed'
    <2>1. Deletion'
      BY <1>0, <1>9, GoesTo DEF ReactInsert, End, Deleting
    <2>2. Listed'
      BY <1>0, <1>9, GoesTo DEF ReactInsert, End, Deleting
    <2> QED
      BY <2>1, <2>2
  <1>10. ASSUME NEW t \in Tasks, ReactPut(t)
        PROVE  Deletion' /\ Listed'
    BY <1>0, <1>10 DEF ReactPut, End
  <1>11. ASSUME NEW t \in Tasks, NEW i \in Ids, NEW u \in Users, UnreactGet(t, i, u)
        PROVE  Deletion' /\ Listed'
    BY <1>0, <1>11 DEF UnreactGet, Begin, MayBegin
  <1>12. ASSUME NEW t \in Tasks, UnreactRemove(t)
        PROVE  Deletion' /\ Listed'
    BY <1>0, <1>12 DEF UnreactRemove, End
  <1>13. ASSUME NEW t \in Tasks, NEW i \in Ids, DeleteGet(t, i)
        PROVE  Deletion' /\ Listed'
    BY <1>0, <1>13 DEF DeleteGet, Begin, MayBegin
  <1>14. ASSUME NEW t \in Tasks, DeleteReactions(t)
        PROVE  Deletion' /\ Listed'
    BY SMTT(30), <1>0, <1>14, GoesTo DEF DeleteReactions
  <1>15. ASSUME NEW t \in Tasks, DeleteLookup(t)
        PROVE  Deletion' /\ Listed'
    BY SMTT(30), <1>0, <1>15, GoesTo DEF DeleteLookup, End
  <1>16. ASSUME NEW t \in Tasks, DeleteUnindex(t)
        PROVE  Deletion' /\ Listed'
    <2>1. Deletion'
      BY <1>0, <1>16, GoesTo DEF DeleteUnindex
    <2>2. Listed'
      BY SMTT(30), <1>0, <1>16, GoesTo DEF DeleteUnindex
    <2> QED
      BY <2>1, <2>2
  <1>17. ASSUME NEW t \in Tasks, DeleteRemove(t)
        PROVE  Deletion' /\ Listed'
    BY <1>0, <1>17 DEF DeleteRemove, End
  <1>18. ASSUME NEW t \in Tasks, DeleteChannel(t)
        PROVE  Deletion' /\ Listed'
    BY <1>0, <1>18 DEF DeleteChannel, Begin, MayBegin
  <1>19. ASSUME NEW t \in Tasks, ClearScan(t)
        PROVE  Deletion' /\ Listed'
    BY <1>0, <1>19 DEF ClearScan
  <1>20. ASSUME NEW t \in Tasks, ClearBatch(t)
        PROVE  Deletion' /\ Listed'
    BY <1>0, <1>20 DEF ClearBatch, End
  <1>21. ASSUME NEW t \in Tasks, NEW c \in Convs, NEW before \in 1..(MaxId + 1),
               NEW len \in 0..MaxLen, ListStart(t, c, before, len)
        PROVE  Deletion' /\ Listed'
    BY <1>0, <1>21 DEF ListStart, Before, Begin, MayBegin
  <1>22. ASSUME NEW t \in Tasks, ListVisit(t)
        PROVE  Deletion' /\ Listed'
    <2>1. Deletion'
      BY <1>0, <1>22, Visits
    <2>2. Listed'
      <3>0. op[t].kind = "list"
        BY <1>22 DEF ListVisit
      <3>1. /\ op'[t].kind = "list"
            /\ \A s \in Tasks : s # t => op'[s] = op[s]
            /\ UNCHANGED <<conv, messages, index, dms, hidden, torn>>
        BY <1>22, Visits
      <3> QED
        BY <3>0, <3>1
    <2> QED
      BY <2>1, <2>2
  <1>23. ASSUME NEW t \in Tasks, Stop(t)
        PROVE  Deletion' /\ Listed'
    BY <1>0, <1>23 DEF Stop, End
  <1> QED
    BY <1>1, <1>2, <1>3, <1>4, <1>5, <1>6, <1>7, <1>8, <1>9, <1>10, <1>11, <1>12,
       <1>13, <1>14, <1>15, <1>16, <1>17, <1>18, <1>19, <1>20, <1>21, <1>22, <1>23 DEF Next

LEMMA GoneKept ==
    ASSUME IInv, Next
    PROVE  Forgotten' /\ DeletedIsGone' /\ IndexedIsStored'
  <1> USE Kinds, ValuesApart DEF IInv, FInv, TypeOK, Forgotten, Busy, Unwritten,
      DeletedIsGone, Deletion, IndexedIsStored, Writing, Indexing, Indexed, Stored, At,
      history
  <1>0. UNCHANGED scope
    BY DEF Next
  <1>1. ASSUME NEW t \in Tasks, NEW c \in Convs, NEW d \in Texts, Send(t, c, d)
        PROVE  Forgotten' /\ DeletedIsGone' /\ IndexedIsStored'
    BY <1>0, <1>1 DEF Send, Fresh, Begin, MayBegin
  <1>2. ASSUME NEW t \in Tasks, WritePut(t)
        PROVE  Forgotten' /\ DeletedIsGone' /\ IndexedIsStored'
    BY <1>0, <1>2, GoesTo DEF WritePut
  <1>3. ASSUME NEW t \in Tasks, WriteIndex(t)
        PROVE  Forgotten' /\ DeletedIsGone' /\ IndexedIsStored'
    BY <1>0, <1>3, GoesTo DEF WriteIndex, End
  <1>4. ASSUME NEW t \in Tasks, WriteKey(t)
        PROVE  Forgotten' /\ DeletedIsGone' /\ IndexedIsStored'
    BY <1>0, <1>4, GoesTo DEF WriteKey, End
  <1>5. ASSUME NEW s \in Sides, RemoveDm(s)
        PROVE  Forgotten' /\ DeletedIsGone' /\ IndexedIsStored'
    BY <1>0, <1>5 DEF RemoveDm
  <1>6. ASSUME NEW t \in Tasks, NEW i \in Ids, NEW d \in Texts, EditGet(t, i, d)
        PROVE  Forgotten' /\ DeletedIsGone' /\ IndexedIsStored'
    BY <1>0, <1>6 DEF EditGet, Begin, MayBegin
  <1>7. ASSUME NEW t \in Tasks, EditPut(t)
        PROVE  Forgotten' /\ DeletedIsGone' /\ IndexedIsStored'
    <2>1. Forgotten'
      BY <1>0, <1>7, PutsBack
    <2>2. DeletedIsGone'
      BY <1>0, <1>7, PutsBack
    <2>3. IndexedIsStored'
      BY <1>0, <1>7, PutsBack
    <2> QED
      BY <2>1, <2>2, <2>3
  <1>8. ASSUME NEW t \in Tasks, NEW i \in Ids, NEW u \in Users, ReactGet(t, i, u)
        PROVE  Forgotten' /\ DeletedIsGone' /\ IndexedIsStored'
    BY <1>0, <1>8 DEF ReactGet, Begin, MayBegin
  <1>9. ASSUME NEW t \in Tasks, ReactInsert(t)
        PROVE  Forgotten' /\ DeletedIsGone' /\ IndexedIsStored'
    BY <1>0, <1>9, GoesTo DEF ReactInsert, End, Deleting
  <1>10. ASSUME NEW t \in Tasks, ReactPut(t)
        PROVE  Forgotten' /\ DeletedIsGone' /\ IndexedIsStored'
    <2>1. Forgotten'
      BY <1>0, <1>10, PutsBack
    <2>2. DeletedIsGone'
      BY <1>0, <1>10, PutsBack
    <2>3. IndexedIsStored'
      BY <1>0, <1>10, PutsBack
    <2> QED
      BY <2>1, <2>2, <2>3
  <1>11. ASSUME NEW t \in Tasks, NEW i \in Ids, NEW u \in Users, UnreactGet(t, i, u)
        PROVE  Forgotten' /\ DeletedIsGone' /\ IndexedIsStored'
    BY <1>0, <1>11 DEF UnreactGet, Begin, MayBegin
  <1>12. ASSUME NEW t \in Tasks, UnreactRemove(t)
        PROVE  Forgotten' /\ DeletedIsGone' /\ IndexedIsStored'
    BY <1>0, <1>12 DEF UnreactRemove, End
  <1>13. ASSUME NEW t \in Tasks, NEW i \in Ids, DeleteGet(t, i)
        PROVE  Forgotten' /\ DeletedIsGone' /\ IndexedIsStored'
    BY <1>0, <1>13 DEF DeleteGet, Begin, MayBegin
  <1>14. ASSUME NEW t \in Tasks, DeleteReactions(t)
        PROVE  Forgotten' /\ DeletedIsGone' /\ IndexedIsStored'
    BY <1>0, <1>14, GoesTo DEF DeleteReactions
  <1>15. ASSUME NEW t \in Tasks, DeleteLookup(t)
        PROVE  Forgotten' /\ DeletedIsGone' /\ IndexedIsStored'
    BY <1>0, <1>15, GoesTo DEF DeleteLookup, End
  <1>16. ASSUME NEW t \in Tasks, DeleteUnindex(t)
        PROVE  Forgotten' /\ DeletedIsGone' /\ IndexedIsStored'
    BY <1>0, <1>16, GoesTo DEF DeleteUnindex
  <1>17. ASSUME NEW t \in Tasks, DeleteRemove(t)
        PROVE  Forgotten' /\ DeletedIsGone' /\ IndexedIsStored'
    <2> DEFINE d == op[t].id
    <2>0. /\ d \in Ids /\ messages'[d] = None
          /\ \A j \in Ids : j # d => messages'[j] = messages[j]
          /\ op'[t] = NoOp /\ \A s \in Tasks : s # t => op'[s] = op[s]
      BY <1>17 DEF DeleteRemove, End
    <2>1. Forgotten'
      BY <1>0, <1>17, <2>0 DEF DeleteRemove
    <2>2. DeletedIsGone'
      <3> SUFFICES ASSUME NEW i \in deleted' \ torn'
                   PROVE  messages'[i] = None /\ \A u \in Users : <<i, u>> \notin reactions'
        OBVIOUS
      <3>1. i \in Ids /\ (i = d \/ i \in deleted) /\ i \notin torn
        BY <1>17, <2>0 DEF DeleteRemove
      <3>2. CASE i = d
        BY <1>17, <2>0, <3>1, <3>2 DEF DeleteRemove
      <3>3. CASE i # d
        BY <1>17, <2>0, <3>1, <3>3 DEF DeleteRemove
      <3> QED
        BY <3>2, <3>3
    <2>3. IndexedIsStored'
      BY <1>0, <1>17, <2>0 DEF DeleteRemove
    <2> QED
      BY <2>1, <2>2, <2>3
  <1>18. ASSUME NEW t \in Tasks, DeleteChannel(t)
        PROVE  Forgotten' /\ DeletedIsGone' /\ IndexedIsStored'
    BY <1>0, <1>18 DEF DeleteChannel, Begin, MayBegin
  <1>19. ASSUME NEW t \in Tasks, ClearScan(t)
        PROVE  Forgotten' /\ DeletedIsGone' /\ IndexedIsStored'
    BY <1>0, <1>19 DEF ClearScan
  <1>20. ASSUME NEW t \in Tasks, ClearBatch(t)
        PROVE  Forgotten' /\ DeletedIsGone' /\ IndexedIsStored'
    BY <1>0, <1>20 DEF ClearBatch, End
  <1>21. ASSUME NEW t \in Tasks, NEW c \in Convs, NEW before \in 1..(MaxId + 1),
               NEW len \in 0..MaxLen, ListStart(t, c, before, len)
        PROVE  Forgotten' /\ DeletedIsGone' /\ IndexedIsStored'
    BY <1>0, <1>21 DEF ListStart, Before, Begin, MayBegin
  <1>22. ASSUME NEW t \in Tasks, ListVisit(t)
        PROVE  Forgotten' /\ DeletedIsGone' /\ IndexedIsStored'
    BY <1>0, <1>22, Visits
  <1>23. ASSUME NEW t \in Tasks, Stop(t)
        PROVE  Forgotten' /\ DeletedIsGone' /\ IndexedIsStored'
    BY <1>0, <1>23 DEF Stop, End
  <1> QED
    BY <1>1, <1>2, <1>3, <1>4, <1>5, <1>6, <1>7, <1>8, <1>9, <1>10, <1>11, <1>12,
       <1>13, <1>14, <1>15, <1>16, <1>17, <1>18, <1>19, <1>20, <1>21, <1>22, <1>23 DEF Next

LEMMA ReactsKept ==
    ASSUME IInv, Next
    PROVE  Reacting'
  <1> USE Kinds, ValuesApart DEF IInv, FInv, TypeOK, Reacting, Unwritten, Stored, At, history
  <1>0. UNCHANGED scope
    BY DEF Next
  <1>1. ASSUME NEW t \in Tasks, NEW c \in Convs, NEW d \in Texts, Send(t, c, d)
        PROVE  Reacting'
    BY <1>0, <1>1 DEF Send, Fresh, Begin, MayBegin
  <1>2. ASSUME NEW t \in Tasks, WritePut(t)
        PROVE  Reacting'
    BY <1>0, <1>2, GoesTo DEF WritePut
  <1>3. ASSUME NEW t \in Tasks, WriteIndex(t)
        PROVE  Reacting'
    BY <1>0, <1>3, GoesTo DEF WriteIndex, End
  <1>4. ASSUME NEW t \in Tasks, WriteKey(t)
        PROVE  Reacting'
    BY <1>0, <1>4, GoesTo DEF WriteKey, End
  <1>5. ASSUME NEW s \in Sides, RemoveDm(s)
        PROVE  Reacting'
    BY <1>0, <1>5 DEF RemoveDm
  <1>6. ASSUME NEW t \in Tasks, NEW i \in Ids, NEW d \in Texts, EditGet(t, i, d)
        PROVE  Reacting'
    BY <1>0, <1>6 DEF EditGet, Begin, MayBegin
  <1>7. ASSUME NEW t \in Tasks, EditPut(t)
        PROVE  Reacting'
    BY <1>0, <1>7 DEF EditPut, Edited, End
  <1>8. ASSUME NEW t \in Tasks, NEW i \in Ids, NEW u \in Users, ReactGet(t, i, u)
        PROVE  Reacting'
    BY <1>0, <1>8 DEF ReactGet, Begin, MayBegin
  <1>9. ASSUME NEW t \in Tasks, ReactInsert(t)
        PROVE  Reacting'
    BY <1>0, <1>9, GoesTo DEF ReactInsert, End, Deleting
  <1>10. ASSUME NEW t \in Tasks, ReactPut(t)
        PROVE  Reacting'
    BY <1>0, <1>10 DEF ReactPut, End
  <1>11. ASSUME NEW t \in Tasks, NEW i \in Ids, NEW u \in Users, UnreactGet(t, i, u)
        PROVE  Reacting'
    BY <1>0, <1>11 DEF UnreactGet, Begin, MayBegin
  <1>12. ASSUME NEW t \in Tasks, UnreactRemove(t)
        PROVE  Reacting'
    BY <1>0, <1>12 DEF UnreactRemove, End
  <1>13. ASSUME NEW t \in Tasks, NEW i \in Ids, DeleteGet(t, i)
        PROVE  Reacting'
    BY <1>0, <1>13 DEF DeleteGet, Begin, MayBegin
  <1>14. ASSUME NEW t \in Tasks, DeleteReactions(t)
        PROVE  Reacting'
    BY <1>0, <1>14, GoesTo DEF DeleteReactions
  <1>15. ASSUME NEW t \in Tasks, DeleteLookup(t)
        PROVE  Reacting'
    BY <1>0, <1>15, GoesTo DEF DeleteLookup, End
  <1>16. ASSUME NEW t \in Tasks, DeleteUnindex(t)
        PROVE  Reacting'
    BY <1>0, <1>16, GoesTo DEF DeleteUnindex
  <1>17. ASSUME NEW t \in Tasks, DeleteRemove(t)
        PROVE  Reacting'
    BY <1>0, <1>17 DEF DeleteRemove, End
  <1>18. ASSUME NEW t \in Tasks, DeleteChannel(t)
        PROVE  Reacting'
    BY <1>0, <1>18 DEF DeleteChannel, Begin, MayBegin
  <1>19. ASSUME NEW t \in Tasks, ClearScan(t)
        PROVE  Reacting'
    BY <1>0, <1>19 DEF ClearScan
  <1>20. ASSUME NEW t \in Tasks, ClearBatch(t)
        PROVE  Reacting'
    BY <1>0, <1>20 DEF ClearBatch, End
  <1>21. ASSUME NEW t \in Tasks, NEW c \in Convs, NEW before \in 1..(MaxId + 1),
               NEW len \in 0..MaxLen, ListStart(t, c, before, len)
        PROVE  Reacting'
    BY <1>0, <1>21 DEF ListStart, Before, Begin, MayBegin
  <1>22. ASSUME NEW t \in Tasks, ListVisit(t)
        PROVE  Reacting'
    BY <1>0, <1>22 DEF ListVisit
  <1>23. ASSUME NEW t \in Tasks, Stop(t)
        PROVE  Reacting'
    BY <1>0, <1>23 DEF Stop, End
  <1> QED
    BY <1>1, <1>2, <1>3, <1>4, <1>5, <1>6, <1>7, <1>8, <1>9, <1>10, <1>11, <1>12,
       <1>13, <1>14, <1>15, <1>16, <1>17, <1>18, <1>19, <1>20, <1>21, <1>22, <1>23 DEF Next

LEMMA TextsKept ==
    ASSUME IInv, Next
    PROVE  TextsAgree'
  <1> USE Kinds, ValuesApart DEF IInv, FInv, TypeOK, TextsAgree, Unwritten, Stored, At,
      history
  <1>0. UNCHANGED scope
    BY DEF Next
  <1>1. ASSUME NEW t \in Tasks, NEW c \in Convs, NEW d \in Texts, Send(t, c, d)
        PROVE  TextsAgree'
    BY <1>0, <1>1 DEF Send, Fresh, Begin, MayBegin
  <1>2. ASSUME NEW t \in Tasks, WritePut(t)
        PROVE  TextsAgree'
    BY <1>0, <1>2, GoesTo DEF WritePut
  <1>3. ASSUME NEW t \in Tasks, WriteIndex(t)
        PROVE  TextsAgree'
    BY <1>0, <1>3, GoesTo DEF WriteIndex, End
  <1>4. ASSUME NEW t \in Tasks, WriteKey(t)
        PROVE  TextsAgree'
    BY <1>0, <1>4, GoesTo DEF WriteKey, End
  <1>5. ASSUME NEW s \in Sides, RemoveDm(s)
        PROVE  TextsAgree'
    BY <1>0, <1>5 DEF RemoveDm
  <1>6. ASSUME NEW t \in Tasks, NEW i \in Ids, NEW d \in Texts, EditGet(t, i, d)
        PROVE  TextsAgree'
    BY <1>0, <1>6 DEF EditGet, Begin, MayBegin
  <1>7. ASSUME NEW t \in Tasks, EditPut(t)
        PROVE  TextsAgree'
    BY <1>0, <1>7 DEF EditPut, Edited, End
  <1>8. ASSUME NEW t \in Tasks, NEW i \in Ids, NEW u \in Users, ReactGet(t, i, u)
        PROVE  TextsAgree'
    BY <1>0, <1>8 DEF ReactGet, Begin, MayBegin
  <1>9. ASSUME NEW t \in Tasks, ReactInsert(t)
        PROVE  TextsAgree'
    BY <1>0, <1>9, GoesTo DEF ReactInsert, End, Deleting
  <1>10. ASSUME NEW t \in Tasks, ReactPut(t)
        PROVE  TextsAgree'
    BY <1>0, <1>10 DEF ReactPut, End
  <1>11. ASSUME NEW t \in Tasks, NEW i \in Ids, NEW u \in Users, UnreactGet(t, i, u)
        PROVE  TextsAgree'
    BY <1>0, <1>11 DEF UnreactGet, Begin, MayBegin
  <1>12. ASSUME NEW t \in Tasks, UnreactRemove(t)
        PROVE  TextsAgree'
    BY <1>0, <1>12 DEF UnreactRemove, End
  <1>13. ASSUME NEW t \in Tasks, NEW i \in Ids, DeleteGet(t, i)
        PROVE  TextsAgree'
    BY <1>0, <1>13 DEF DeleteGet, Begin, MayBegin
  <1>14. ASSUME NEW t \in Tasks, DeleteReactions(t)
        PROVE  TextsAgree'
    BY <1>0, <1>14, GoesTo DEF DeleteReactions
  <1>15. ASSUME NEW t \in Tasks, DeleteLookup(t)
        PROVE  TextsAgree'
    BY <1>0, <1>15, GoesTo DEF DeleteLookup, End
  <1>16. ASSUME NEW t \in Tasks, DeleteUnindex(t)
        PROVE  TextsAgree'
    BY <1>0, <1>16, GoesTo DEF DeleteUnindex
  <1>17. ASSUME NEW t \in Tasks, DeleteRemove(t)
        PROVE  TextsAgree'
    BY <1>0, <1>17 DEF DeleteRemove, End
  <1>18. ASSUME NEW t \in Tasks, DeleteChannel(t)
        PROVE  TextsAgree'
    BY <1>0, <1>18 DEF DeleteChannel, Begin, MayBegin
  <1>19. ASSUME NEW t \in Tasks, ClearScan(t)
        PROVE  TextsAgree'
    BY <1>0, <1>19 DEF ClearScan
  <1>20. ASSUME NEW t \in Tasks, ClearBatch(t)
        PROVE  TextsAgree'
    BY <1>0, <1>20 DEF ClearBatch, End
  <1>21. ASSUME NEW t \in Tasks, NEW c \in Convs, NEW before \in 1..(MaxId + 1),
               NEW len \in 0..MaxLen, ListStart(t, c, before, len)
        PROVE  TextsAgree'
    BY <1>0, <1>21 DEF ListStart, Before, Begin, MayBegin
  <1>22. ASSUME NEW t \in Tasks, ListVisit(t)
        PROVE  TextsAgree'
    BY <1>0, <1>22 DEF ListVisit
  <1>23. ASSUME NEW t \in Tasks, Stop(t)
        PROVE  TextsAgree'
    BY <1>0, <1>23 DEF Stop, End
  <1> QED
    BY <1>1, <1>2, <1>3, <1>4, <1>5, <1>6, <1>7, <1>8, <1>9, <1>10, <1>11, <1>12,
       <1>13, <1>14, <1>15, <1>16, <1>17, <1>18, <1>19, <1>20, <1>21, <1>22, <1>23 DEF Next

LEMMA ReactionsKept ==
    ASSUME IInv, Next
    PROVE  ReactionsAgree'
  <1> USE Kinds, ValuesApart DEF IInv, FInv, TypeOK, ReactionsAgree, Telling, Reacting,
      Unwritten, Stored, At, history
  <1>0. UNCHANGED scope
    BY DEF Next
  <1>1. ASSUME NEW t \in Tasks, NEW c \in Convs, NEW d \in Texts, Send(t, c, d)
        PROVE  ReactionsAgree'
    BY <1>0, <1>1 DEF Send, Fresh, Begin, MayBegin
  <1>2. ASSUME NEW t \in Tasks, WritePut(t)
        PROVE  ReactionsAgree'
    BY <1>0, <1>2, GoesTo DEF WritePut
  <1>3. ASSUME NEW t \in Tasks, WriteIndex(t)
        PROVE  ReactionsAgree'
    BY <1>0, <1>3, GoesTo DEF WriteIndex, End
  <1>4. ASSUME NEW t \in Tasks, WriteKey(t)
        PROVE  ReactionsAgree'
    BY <1>0, <1>4, GoesTo DEF WriteKey, End
  <1>5. ASSUME NEW s \in Sides, RemoveDm(s)
        PROVE  ReactionsAgree'
    BY <1>0, <1>5 DEF RemoveDm
  <1>6. ASSUME NEW t \in Tasks, NEW i \in Ids, NEW d \in Texts, EditGet(t, i, d)
        PROVE  ReactionsAgree'
    BY <1>0, <1>6 DEF EditGet, Begin, MayBegin
  <1>7. ASSUME NEW t \in Tasks, EditPut(t)
        PROVE  ReactionsAgree'
    BY <1>0, <1>7 DEF EditPut, Edited, End
  <1>8. ASSUME NEW t \in Tasks, NEW i \in Ids, NEW u \in Users, ReactGet(t, i, u)
        PROVE  ReactionsAgree'
    BY <1>0, <1>8 DEF ReactGet, Begin, MayBegin
  <1>9. ASSUME NEW t \in Tasks, ReactInsert(t)
        PROVE  ReactionsAgree'
    BY <1>0, <1>9, GoesTo DEF ReactInsert, End, Deleting
  <1>10. ASSUME NEW t \in Tasks, ReactPut(t)
        PROVE  ReactionsAgree'
    BY <1>0, <1>10 DEF ReactPut, End
  <1>11. ASSUME NEW t \in Tasks, NEW i \in Ids, NEW u \in Users, UnreactGet(t, i, u)
        PROVE  ReactionsAgree'
    BY <1>0, <1>11 DEF UnreactGet, Begin, MayBegin
  <1>12. ASSUME NEW t \in Tasks, UnreactRemove(t)
        PROVE  ReactionsAgree'
    BY <1>0, <1>12 DEF UnreactRemove, End
  <1>13. ASSUME NEW t \in Tasks, NEW i \in Ids, DeleteGet(t, i)
        PROVE  ReactionsAgree'
    BY <1>0, <1>13 DEF DeleteGet, Begin, MayBegin
  <1>14. ASSUME NEW t \in Tasks, DeleteReactions(t)
        PROVE  ReactionsAgree'
    BY <1>0, <1>14, GoesTo DEF DeleteReactions
  <1>15. ASSUME NEW t \in Tasks, DeleteLookup(t)
        PROVE  ReactionsAgree'
    BY <1>0, <1>15, GoesTo DEF DeleteLookup, End
  <1>16. ASSUME NEW t \in Tasks, DeleteUnindex(t)
        PROVE  ReactionsAgree'
    BY <1>0, <1>16, GoesTo DEF DeleteUnindex
  <1>17. ASSUME NEW t \in Tasks, DeleteRemove(t)
        PROVE  ReactionsAgree'
    BY <1>0, <1>17 DEF DeleteRemove, End
  <1>18. ASSUME NEW t \in Tasks, DeleteChannel(t)
        PROVE  ReactionsAgree'
    BY <1>0, <1>18 DEF DeleteChannel, Begin, MayBegin
  <1>19. ASSUME NEW t \in Tasks, ClearScan(t)
        PROVE  ReactionsAgree'
    BY <1>0, <1>19 DEF ClearScan
  <1>20. ASSUME NEW t \in Tasks, ClearBatch(t)
        PROVE  ReactionsAgree'
    BY <1>0, <1>20 DEF ClearBatch, End
  <1>21. ASSUME NEW t \in Tasks, NEW c \in Convs, NEW before \in 1..(MaxId + 1),
               NEW len \in 0..MaxLen, ListStart(t, c, before, len)
        PROVE  ReactionsAgree'
    BY <1>0, <1>21 DEF ListStart, Before, Begin, MayBegin
  <1>22. ASSUME NEW t \in Tasks, ListVisit(t)
        PROVE  ReactionsAgree'
    BY <1>0, <1>22 DEF ListVisit
  <1>23. ASSUME NEW t \in Tasks, Stop(t)
        PROVE  ReactionsAgree'
    BY <1>0, <1>23 DEF Stop, End
  <1> QED
    BY <1>1, <1>2, <1>3, <1>4, <1>5, <1>6, <1>7, <1>8, <1>9, <1>10, <1>11, <1>12,
       <1>13, <1>14, <1>15, <1>16, <1>17, <1>18, <1>19, <1>20, <1>21, <1>22, <1>23 DEF Next

LEMMA PagesKept ==
    ASSUME IInv, Next
    PROVE  Paging'
  <1> USE Kinds, ValuesApart DEF IInv, FInv, TypeOK, Paging, Paged, Unwritten, Stored, At,
      history
  <1>0. UNCHANGED scope
    BY DEF Next
  <1>1. ASSUME NEW t \in Tasks, NEW c \in Convs, NEW d \in Texts, Send(t, c, d)
        PROVE  Paging'
    BY <1>0, <1>1 DEF Send, Fresh, Begin, MayBegin
  <1>2. ASSUME NEW t \in Tasks, WritePut(t)
        PROVE  Paging'
    BY <1>0, <1>2, GoesTo DEF WritePut
  <1>3. ASSUME NEW t \in Tasks, WriteIndex(t)
        PROVE  Paging'
    BY <1>0, <1>3, GoesTo DEF WriteIndex, End
  <1>4. ASSUME NEW t \in Tasks, WriteKey(t)
        PROVE  Paging'
    BY <1>0, <1>4, GoesTo DEF WriteKey, End
  <1>5. ASSUME NEW s \in Sides, RemoveDm(s)
        PROVE  Paging'
    BY <1>0, <1>5 DEF RemoveDm
  <1>6. ASSUME NEW t \in Tasks, NEW i \in Ids, NEW d \in Texts, EditGet(t, i, d)
        PROVE  Paging'
    BY <1>0, <1>6 DEF EditGet, Begin, MayBegin
  <1>7. ASSUME NEW t \in Tasks, EditPut(t)
        PROVE  Paging'
    BY <1>0, <1>7 DEF EditPut, Edited, End
  <1>8. ASSUME NEW t \in Tasks, NEW i \in Ids, NEW u \in Users, ReactGet(t, i, u)
        PROVE  Paging'
    BY <1>0, <1>8 DEF ReactGet, Begin, MayBegin
  <1>9. ASSUME NEW t \in Tasks, ReactInsert(t)
        PROVE  Paging'
    BY <1>0, <1>9, GoesTo DEF ReactInsert, End, Deleting
  <1>10. ASSUME NEW t \in Tasks, ReactPut(t)
        PROVE  Paging'
    BY <1>0, <1>10 DEF ReactPut, End
  <1>11. ASSUME NEW t \in Tasks, NEW i \in Ids, NEW u \in Users, UnreactGet(t, i, u)
        PROVE  Paging'
    BY <1>0, <1>11 DEF UnreactGet, Begin, MayBegin
  <1>12. ASSUME NEW t \in Tasks, UnreactRemove(t)
        PROVE  Paging'
    BY <1>0, <1>12 DEF UnreactRemove, End
  <1>13. ASSUME NEW t \in Tasks, NEW i \in Ids, DeleteGet(t, i)
        PROVE  Paging'
    BY <1>0, <1>13 DEF DeleteGet, Begin, MayBegin
  <1>14. ASSUME NEW t \in Tasks, DeleteReactions(t)
        PROVE  Paging'
    BY <1>0, <1>14, GoesTo DEF DeleteReactions
  <1>15. ASSUME NEW t \in Tasks, DeleteLookup(t)
        PROVE  Paging'
    BY <1>0, <1>15, GoesTo DEF DeleteLookup, End
  <1>16. ASSUME NEW t \in Tasks, DeleteUnindex(t)
        PROVE  Paging'
    BY <1>0, <1>16, GoesTo DEF DeleteUnindex
  <1>17. ASSUME NEW t \in Tasks, DeleteRemove(t)
        PROVE  Paging'
    BY <1>0, <1>17 DEF DeleteRemove, End
  <1>18. ASSUME NEW t \in Tasks, DeleteChannel(t)
        PROVE  Paging'
    BY <1>0, <1>18 DEF DeleteChannel, Begin, MayBegin
  <1>19. ASSUME NEW t \in Tasks, ClearScan(t)
        PROVE  Paging'
    BY <1>0, <1>19 DEF ClearScan
  <1>20. ASSUME NEW t \in Tasks, ClearBatch(t)
        PROVE  Paging'
    <2>1. \A i \in Ids : messages'[i] # None => messages[i] # None
      BY <1>20 DEF ClearBatch
    <2>2. op'[t] = NoOp /\ \A s \in Tasks : s # t => op'[s] = op[s]
      BY <1>20 DEF ClearBatch, End
    <2>3. torn \subseteq torn'
      BY <1>20 DEF ClearBatch
    <2> QED
      BY <2>1, <2>2, <2>3 DEF ListOp
  <1>21. ASSUME NEW t \in Tasks, NEW c \in Convs, NEW before \in 1..(MaxId + 1),
               NEW len \in 0..MaxLen, ListStart(t, c, before, len)
        PROVE  Paging'
    BY <1>0, <1>21 DEF ListStart, Before, Begin, MayBegin, Most
  <1>22. ASSUME NEW t \in Tasks, ListVisit(t)
        PROVE  Paging'
    <2>1. At(t, "list", "visit")
      BY <1>22 DEF ListVisit
    <2>2. PICK i \in Ids :
              /\ op'[t] \in ListOp /\ op'[t] # NoOp
              /\ op'[t].found = op[t].found
              /\ op'[t].before = op[t].before
              /\ op'[t].len = op[t].len
              /\ op'[t].left = op[t].left \ {i}
              /\ op'[t].page = IF Stored(i) THEN Append(op[t].page, i) ELSE op[t].page
              /\ op'[t].pc = IF Len(op'[t].page) >= op[t].len \/ op'[t].left = {}
                             THEN "done" ELSE "visit"
              /\ i \in op[t].left /\ \A j \in op[t].left : j <= i
              /\ \A s \in Tasks : s # t => op'[s] = op[s]
              /\ UNCHANGED <<messages, torn>>
      BY <1>22, Visits
    <2> DEFINE l == op[t]
               page == {l.page[k] : k \in DOMAIN l.page}
               next == {op'[t].page[k] : k \in DOMAIN op'[t].page}
    <2>3. l \in ListOp /\ l # NoOp /\ l.kind = "list" /\ l.pc = "visit"
      BY <2>1
    <2>4. /\ l.left \subseteq l.found
          /\ \A j \in l.found : j < l.before
          /\ page \subseteq l.found \ l.left
          /\ \A j \in l.left, k \in page : j < k
          /\ \A j, k \in DOMAIN l.page : j < k => l.page[j] > l.page[k]
          /\ \A j \in l.found \ (l.left \cup page) : Stored(j) => j \in torn
          /\ Len(l.page) < Most(l.len)
      BY <2>3
    <2>5. l.page \in Seq(Ids) /\ l.len \in Nat
      BY <2>3 DEF ListOp
    <2>6. /\ next = IF Stored(i) THEN page \cup {i} ELSE page
          /\ Len(op'[t].page) = IF Stored(i) THEN Len(l.page) + 1 ELSE Len(l.page)
          /\ \A j, k \in DOMAIN op'[t].page : j < k => op'[t].page[j] > op'[t].page[k]
      <3>1. CASE Stored(i)
        <4> DEFINE new == Append(l.page, i)
        <4>1. \A k \in DOMAIN l.page : i < l.page[k]
          BY <2>2, <2>4
        <4>2. op'[t].page = new
          BY <2>2, <3>1
        <4>3. /\ Len(new) = Len(l.page) + 1
              /\ {new[k] : k \in DOMAIN new} = page \cup {i}
              /\ \A j, k \in DOMAIN new : j < k => new[j] > new[k]
          BY <2>4, <2>5, <4>1, PageGrows
        <4> HIDE DEF new, page
        <4>4. next = {new[k] : k \in DOMAIN new}
          BY <4>2
        <4>5. \A j, k \in DOMAIN op'[t].page : j < k => op'[t].page[j] > op'[t].page[k]
          BY <4>2, <4>3
        <4>6. Len(op'[t].page) = Len(l.page) + 1
          BY <4>2, <4>3
        <4> HIDE DEF next
        <4> QED
          BY <3>1, <4>3, <4>4, <4>5, <4>6
      <3>2. CASE ~Stored(i)
        BY <2>2, <2>4, <3>2
      <3> QED
        BY <3>1, <3>2
    <2>7. Len(l.page) \in Nat
      BY <2>5
    <2> HIDE DEF page, next
    <2>8. \A j \in l.found \ (op'[t].left \cup next) : Stored(j) => j \in torn
      BY <2>2, <2>4, <2>6
    <2>9. /\ next \subseteq l.found \ op'[t].left
          /\ \A j \in op'[t].left, k \in next : j < k
      BY <2>2, <2>3, <2>4, <2>6 DEF ListOp, Ids
    <2>10. /\ Len(op'[t].page) <= Most(l.len)
           /\ IF op'[t].pc = "visit" THEN Len(op'[t].page) < Most(l.len) /\ op'[t].left # {}
              ELSE Len(op'[t].page) >= l.len \/ op'[t].left = {}
      BY <2>2, <2>4, <2>5, <2>6, <2>7 DEF Most
    <2>11. Paged(op[t])'
      BY <2>2, <2>4, <2>6, <2>8, <2>9, <2>10 DEF next
    <2>12. ASSUME NEW s \in Tasks \ {t}, Paged(op[s])
           PROVE  Paged(op[s])'
      BY <2>2, <2>12
    <2> HIDE DEF Paged
    <2> QED
      BY <2>2, <2>11, <2>12
  <1>23. ASSUME NEW t \in Tasks, Stop(t)
        PROVE  Paging'
    BY <1>0, <1>23 DEF Stop, End
  <1> QED
    BY <1>1, <1>2, <1>3, <1>4, <1>5, <1>6, <1>7, <1>8, <1>9, <1>10, <1>11, <1>12,
       <1>13, <1>14, <1>15, <1>16, <1>17, <1>18, <1>19, <1>20, <1>21, <1>22, <1>23 DEF Next

LEMMA InitIInv ==
    ASSUME Init
    PROVE  IInv
  <1>1. TypeOK
    BY DEF Init, TypeOK
  <1>2. FInv
    BY ValuesApart
       DEF Init, FInv, Unwritten, Writing, Indexing, Indexed, Deletion, Listed, Forgotten,
           Reacting, TextsAgree, ReactionsAgree, Paging, DeletedIsGone, IndexedIsStored,
           Stored, At, Busy
  <1> QED
    BY <1>1, <1>2 DEF IInv

LEMMA NextIInv ==
    ASSUME IInv, [Next]_vars
    PROVE  IInv'
  <1>1. CASE UNCHANGED vars
    <2>1. TypeOK'
      BY <1>1 DEF vars, IInv, TypeOK
    <2>2. /\ Unwritten' /\ Writing' /\ Indexing' /\ Deletion'
          /\ Listed' /\ Forgotten' /\ Reacting'
      BY <1>1 DEF vars, IInv, FInv, Unwritten, Writing, Indexing, Indexed, Deletion, Listed,
                  Forgotten, Reacting, Stored, At, Busy
    <2>3. /\ TextsAgree' /\ ReactionsAgree' /\ Paging'
          /\ DeletedIsGone' /\ IndexedIsStored'
      BY <1>1 DEF vars, IInv, FInv, TextsAgree, ReactionsAgree, Telling, Paging, Paged,
                  DeletedIsGone, IndexedIsStored, Stored, At
    <2> QED
      BY <2>1, <2>2, <2>3 DEF IInv, FInv
  <1>2. CASE Next
    BY <1>2, TypesKept, WritesKept, DeletesKept, GoneKept, ReactsKept, TextsKept,
       ReactionsKept, PagesKept
       DEF IInv, FInv
  <1> QED
    BY <1>1, <1>2

LEMMA Invariance == Spec => []IInv
  BY InitIInv, NextIInv, PTL DEF Spec

------------------------------------------------------------------------------

(* MessageStore's variables have their types, and no message is written by *)
(* two handlers.                                                           *)
THEOREM StoreIsTyped == Spec => []TypeOK
  <1>1. IInv => TypeOK
    BY DEF IInv
  <1> QED
    BY <1>1, Invariance, PTL

(* MessageStore::write, delete and delete_channel_messages, any number of  *)
(* them at once and each stopped anywhere: the index lists a message if,   *)
(* and only if, it is stored, but for the messages so torn.                *)
THEOREM TheIndexAgrees == Spec => []IndexAgrees
  <1>1. IInv => IndexAgrees
    <2> SUFFICES ASSUME IInv PROVE IndexAgrees
      OBVIOUS
    <2>1. StoredIsListed
      BY DEF IInv, FInv, Listed, StoredIsListed, Busy, At
    <2> QED
      BY <2>1 DEF IInv, FInv, IndexAgrees
  <1> QED
    BY <1>1, Invariance, PTL

(* delete_message: what it has deleted is stored no more and has no        *)
(* reactions, whichever handlers ran meanwhile, unless one of them was     *)
(* editing it or reacting to it.                                           *)
THEOREM TheDeletedAreGone == Spec => []DeletedIsGone
  <1>1. IInv => DeletedIsGone
    BY DEF IInv, FInv
  <1> QED
    BY <1>1, Invariance, PTL

(* overwrite_message and handle_reaction read a message and put it back    *)
(* without excluding each other: only a put of what another has changed    *)
(* meanwhile loses a text or the mark that there are reactions.            *)
THEOREM NoTextIsLost == Spec => []NothingIsLost
  <1>1. IInv => NothingIsLost
    BY DEF IInv, FInv, TextsAgree, ReactionsAgree, Telling, NothingIsLost
  <1> QED
    BY <1>1, Invariance, PTL

(* get_direct_messages and get_channel_messages, from any message and of   *)
(* any length that is not negative (one that is makes no page, but a       *)
(* panic), while messages are sent and deleted.                            *)
THEOREM PagesStayExact == Spec => []PagesAreExact
  <1>1. IInv => PagesAreExact
    <2> SUFFICES ASSUME IInv, NEW t \in Tasks, At(t, "list", "done")
                 PROVE  PageIsExact(op[t])
      BY DEF PagesAreExact
    <2>1. Paged(op[t]) /\ op[t].pc = "done"
      BY DEF IInv, FInv, Paging, At
    <2> QED
      BY <2>1 DEF Paged, PageIsExact
  <1> QED
    BY <1>1, Invariance, PTL
==============================================================================
