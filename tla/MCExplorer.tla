----------------------------- MODULE MCExplorer -----------------------------
(* Explorer for TLC: a card with two nested directories, the inner one full, *)
(* and a card with another root, which ends in a file the filter rejects.    *)
EXTENDS Explorer

CONSTANTS c1, c2, sub, deep, a, b, x, y, z

Item(name, kind, to) == [name |-> name, kind |-> kind, to |-> to]
RootOf1 == <<Item(a, "dir", sub), Item(z, "doc", NoDir), Item(x, "app", NoDir),
             Item(y, "app", NoDir), Item(b, "dir", deep)>>
RootOf2 == <<Item(y, "app", NoDir), Item(b, "dir", deep), Item(z, "doc", NoDir)>>
MCTable(c, d) ==
  CASE d = Root -> IF c = c1 THEN RootOf1 ELSE RootOf2
    [] d = sub  -> <<Item(Up, "dot", Root), Item(b, "dir", deep)>>
    [] OTHER    -> <<Item(Up, "dot", IF c = c1 THEN sub ELSE Root), Item(y, "app", NoDir)>>
MCFull(c, d) == d = deep
=============================================================================
