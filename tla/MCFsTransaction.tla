-------------------------- MODULE MCFsTransaction --------------------------
(***************************************************************************)
(* FsTransaction with two runs that meet at one file, which others replace *)
(* as well: t1 makes a directory with a new file in it and rewrites the    *)
(* shared file, t2 removes that one, finds another up to date and          *)
(* untracks it.                                                            *)
(***************************************************************************)
EXTENDS FsTransaction, TLC

CONSTANTS t1, t2, dir, new, text, asset, block, mine, blob, prose

MCOp(kind, path, content) == [kind |-> kind, path |-> path, content |-> content]

MCTransactions == {t1, t2}
MCPlanOf ==
  (t1 :> <<MCOp("mkdir", dir, Dir), MCOp("write", new, block), MCOp("write", text, block)>>) @@
  (t2 :> <<MCOp("write", asset, blob), MCOp("remove", text, Absent), MCOp("untrack", asset, Absent)>>)

MCFiles ==
  (dir :> Absent) @@ (new :> Absent) @@ (text :> prose) @@ (asset :> blob)
MCIndex ==
  (dir :> Absent) @@ (new :> Absent) @@ (text :> prose) @@ (asset :> blob)
MCInside == (dir :> {new}) @@ (new :> {}) @@ (text :> {}) @@ (asset :> {})
MCEdits == (text :> mine)
=============================================================================
