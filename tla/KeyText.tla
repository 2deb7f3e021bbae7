------------------------------- MODULE KeyText -------------------------------
(***************************************************************************)
(* The text that derive_key hashes (idempotency.py), as the sequence of    *)
(* its parts: the words of a task and of a tool between their '|'s, the    *)
(* step, and the tokens of the arguments' JSON.  Joining texts with '|' is *)
(* then joining sequences.                                                 *)
(***************************************************************************)
EXTENDS Sequences

Word(w) == <<"text", w>>

Words(text) == [i \in DOMAIN text |-> Word(text[i])]

(* task_id|step|tool|canonical_json(args)                                  *)
KeyText(task, step, tool, json) ==
  Words(task) \o Words(<<step>>) \o Words(tool) \o json

=============================================================================
