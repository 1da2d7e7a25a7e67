---------------------------- MODULE IncarnationLog ----------------------------
(***************************************************************************)
(* What the server's event log promises, said with the log alone.          *)
(*                                                                         *)
(* An event is only ever appended, with a number above all others.  A root *)
(* lives from a root_add to the next root_remove of the same root; that    *)
(* stretch is an incarnation, named by the root_add's number.  A content   *)
(* event is appended to a live incarnation, the one it names if it names   *)
(* one, and only by an author whose baseline is not older than the last    *)
(* event on that path in that incarnation (optimistic concurrency).        *)
(*                                                                         *)
(* No table appears here: ServerLog keeps the tables roots and path_heads  *)
(* and decides by looking at them; it is shown to implement this module.   *)
(***************************************************************************)
EXTENDS Integers

CONSTANTS Root, Path, None

VARIABLE log

Event == [seq  : Nat,
          type : {"root_add", "root_remove", "content"},
          root : Root,
          path : Path \cup {None},
          base : Nat \cup {None},    \* base_seq
          inc  : Nat \cup {None}]    \* root_created_seq

IsRootEvent(e) == e.type \in {"root_add", "root_remove"}

\* e is a root_add that no later root event of the same root follows.
StartsIncarnation(e) ==
  /\ e.type = "root_add"
  /\ \A f \in log : IsRootEvent(f) /\ f.root = e.root => f.seq <= e.seq

\* The content events of a path in the incarnation that began with a.
PathEvents(a, p) ==
  {f \in log : /\ f.type = "content"
               /\ f.root = a.root
               /\ f.path = p
               /\ f.seq > a.seq}

Named(e, a) == e.inc \in {None, a.seq}

MayAppend(e) ==
  CASE e.type = "root_add" ->
         /\ e.inc = None
         /\ ~ \E a \in log : StartsIncarnation(a) /\ a.root = e.root
    [] e.type = "root_remove" ->
         \E a \in log : StartsIncarnation(a) /\ a.root = e.root /\ Named(e, a)
    [] e.type = "content" ->
         \E a \in log :
           /\ StartsIncarnation(a)
           /\ a.root = e.root
           /\ Named(e, a)
           /\ IF PathEvents(a, e.path) = {}
              THEN e.base = 0
              ELSE \A f \in PathEvents(a, e.path) : e.base >= f.seq

Append(e) ==
  /\ \A f \in log : f.seq < e.seq
  /\ MayAppend(e)
  /\ log' = log \cup {e}

Init == log = {}
Next == \E e \in (log' \ log) \cap Event : Append(e)
Spec == Init /\ [][Next]_log

-----------------------------------------------------------------------------
\* A root event of e's root separates e from the later event f.
SeparatedByRootEvent(e, f) ==
  \E x \in log : /\ IsRootEvent(x) /\ x.root = e.root
                 /\ e.seq < x.seq /\ x.seq < f.seq

(***************************************************************************)
(* No lost update.  Of two content events on one path of one incarnation,  *)
(* the author of the later one had a baseline that includes the earlier    *)
(* one.  db/events.go:92-112.                                              *)
(***************************************************************************)
NoLostUpdate ==
  \A e, f \in log :
    /\ e.type = "content" /\ f.type = "content"
    /\ e.root = f.root /\ e.path = f.path
    /\ e.seq < f.seq
    /\ ~SeparatedByRootEvent(e, f)
    => f.base >= e.seq

(***************************************************************************)
(* An event that names an incarnation is in it: the root_add it names is   *)
(* in the log, earlier, and no root event lies between.                    *)
(* db/events.go:66-68, 88-90.                                              *)
(***************************************************************************)
IncarnationBound ==
  \A f \in log :
    f.inc # None =>
      \E a \in log : /\ a.type = "root_add" /\ a.root = f.root
                     /\ a.seq = f.inc /\ a.seq < f.seq
                     /\ ~SeparatedByRootEvent(a, f)

(***************************************************************************)
(* Content is only ever appended to a root that is there: the last root    *)
(* event before it is a root_add.  db/events.go:76-87.                     *)
(***************************************************************************)
ContentInIncarnation ==
  \A f \in log :
    f.type = "content" =>
      \E a \in log : /\ a.type = "root_add" /\ a.root = f.root
                     /\ a.seq < f.seq
                     /\ ~SeparatedByRootEvent(a, f)
=============================================================================
