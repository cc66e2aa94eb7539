---------------------------- MODULE AtomicReplace ----------------------------
(***************************************************************************)
(* What upload_file promises of the file it replaces                       *)
(* (crates/bridge/src/mcp.rs:339-341: "The target sees either its original *)
(* file or the complete upload"): each writer replaces the file by its     *)
(* whole content in one step and at most once, and reports success only    *)
(* after it did.  A writer that reports an error may have replaced the     *)
(* file or may still do so: its last request can be carried out late.      *)
(*                                                                         *)
(* Nothing is forced to disk.  A crash of the file's machine may bring     *)
(* back any content the file had since the crash before, and destroy parts *)
(* of each but the first; a writer that had begun may then replace the     *)
(* file by content of which parts were destroyed.                          *)
(***************************************************************************)
CONSTANTS
  Writers,
  Original,    \* the file before any writer
  Whole,       \* writer -> its complete content
  Lost         \* what is found where content was destroyed

VARIABLES
  file,        \* the content of the destination
  ondisk,      \* what a crash may leave of it
  exposed,     \* the writers that had begun when the machine crashed
  outcome,     \* writer -> what it reported
  replaced     \* the writers that replaced the file

vars == <<file, ondisk, exposed, outcome, replaced>>

\* Content of which any parts are destroyed.
Damages(f) == {[k \in DOMAIN f |-> IF k \in gone THEN Lost ELSE f[k]] : gone \in SUBSET DOMAIN f}

Init ==
  /\ file = Original /\ ondisk = {Original}
  /\ exposed = {}
  /\ outcome = [w \in Writers |-> "idle"]
  /\ replaced = {}

Begin(w) ==
  /\ outcome[w] = "idle"
  /\ outcome' = [outcome EXCEPT ![w] = "running"]
  /\ UNCHANGED <<file, ondisk, exposed, replaced>>

Replace(w) ==
  /\ outcome[w] # "idle" /\ w \notin replaced
  /\ file' \in IF w \in exposed THEN Damages(Whole[w]) ELSE {Whole[w]}
  /\ ondisk' = ondisk \cup Damages(file')
  /\ replaced' = replaced \cup {w}
  /\ UNCHANGED <<exposed, outcome>>

Report(w, what) ==
  /\ outcome[w] = "running"
  /\ what = "ok" => w \in replaced
  /\ outcome' = [outcome EXCEPT ![w] = what]
  /\ UNCHANGED <<file, ondisk, exposed, replaced>>

Crash ==
  /\ file' \in ondisk /\ ondisk' = {file'}
  /\ exposed' = exposed \cup {w \in Writers : outcome[w] # "idle"}
  /\ UNCHANGED <<outcome, replaced>>

Next ==
  \/ \E w \in Writers : Begin(w) \/ Replace(w) \/ \E what \in {"ok", "error"} : Report(w, what)
  \/ Crash

Spec == Init /\ [][Next]_vars

=============================================================================
