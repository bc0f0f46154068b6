--------------------------- MODULE MCFileTransfer ---------------------------
(* Instance of FileTransfer, bounded by its constants.                     *)
EXTENDS FileTransfer

(* Two files of one name, sent by two processes with buffers of their own. *)
MCTransfers ==
  << [process |-> 1, name |-> "f", length |-> 3, buffer_size |-> 2,
      hash |-> TRUE],
     [process |-> 2, name |-> "f", length |-> 1, buffer_size |-> 3,
      hash |-> TRUE] >>
=============================================================================
