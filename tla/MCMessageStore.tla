--------------------------- MODULE MCMessageStore ---------------------------
(* MessageStore for TLC: three messages, two texts, three handlers.        *)
EXTENDS MessageStore, TLC

Symmetry == Permutations(Tasks) \cup Permutations(Texts) \cup Permutations(Users)

(* Three handlers at work on one message. *)
OneMessage == [kinds |-> {"write", "edit", "react", "unreact", "delete", "clear",
                          "remove_dm"},
               convs |-> Convs, ids |-> 1, tasks |-> 3, texts |-> 2]

(* Pages of a channel of three messages, with one other handler. *)
Pages == [kinds |-> {"write", "delete", "list"},
          convs |-> {"channel"}, ids |-> 3, tasks |-> 2, texts |-> 1]

AllScopes == {OneMessage, Pages}
==============================================================================
