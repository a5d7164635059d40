---------------------------- MODULE MCTreeTransfer ----------------------------
(* Two source trees: one that ends, with a link, a device and two names that   *)
(* are no names, and one whose directory contains itself.                      *)
EXTENDS TreeTransfer

Entry(name, kind, dir, size) == [name |-> <<name>>, kind |-> kind, dir |-> dir, size |-> size]
Odd(name, kind, dir) == [name |-> name, kind |-> kind, dir |-> dir, size |-> 1]

Plain ==
  [top |-> <<Entry("a", "File", "top", 2), Entry("d", "Dir", "sub", 0), Odd(<<"..">>, "Dir", "top"),
             Entry("l", "Symlink", "sub", 0)>>,
   sub |-> <<Entry("b", "File", "sub", 1), Odd(<<"x", "y">>, "File", "sub"), Entry("o", "Other", "sub", 0)>>]

Loop ==
  [top |-> <<Entry("d", "Dir", "sub", 0)>>,
   sub |-> <<Entry("b", "File", "sub", 1), Entry("d", "Dir", "sub", 0)>>]

MCTrees == {Plain, Loop}

(* Nothing; the root with a whole file; a partial; a file where the directory goes. *)
MCKept == {<< >>, (<<>> :> "dir") @@ (<<"a">> :> "whole"),
           (<<>> :> "dir") @@ (<<"d">> :> "whole")}
==============================================================================
