-------------------------------- MODULE MCFs --------------------------------
(***************************************************************************)
(* Three file systems and the calls on them.  Alone: one process makes      *)
(* every call on an empty file system.  Pair: two processes share a tree    *)
(* /a (directory) with /a/b and /b, two names of one file; they make every  *)
(* call that creates no inode.  Reuse: one process removes /b, which it may *)
(* have open, while the other creates and removes /a.                       *)
(***************************************************************************)
EXTENDS Fs

At(s) == [abs |-> TRUE, elems |-> s]
Here(s) == [abs |-> FALSE, elems |-> s]
Do(op, path) == [op |-> op, path |-> path]
Ln(old, new) == [op |-> "link", path |-> old, new |-> new]
Put(v) == [op |-> "write", val |-> v]

Plain(t, n) == [type |-> t, nlink |-> n]
RootEnts == [NoEnts EXCEPT !["."] = Root, ![".."] = Root]

Empty == [dinode |-> [i \in Inums |-> IF i = Root THEN Plain("dir", 1) ELSE Free],
          ents   |-> [i \in Inums |-> IF i = Root THEN RootEnts ELSE NoEnts],
          data   |-> [i \in Inums |-> "none"]]

Tree == [dinode |-> [Empty.dinode EXCEPT ![1] = Plain("dir", 2), ![2] = Plain("dir", 1),
                                         ![3] = Plain("file", 2)],
         ents   |-> [Empty.ents EXCEPT ![1]["a"] = 2, ![1]["b"] = 3,
                       ![2] = [NoEnts EXCEPT !["."] = 2, ![".."] = 1, !["b"] = 3]],
         data   |-> [Empty.data EXCEPT ![3] = "v"]]

A == At(<<"a">>)
B == At(<<"b">>)
AB == At(<<"a", "b">>)

Alone == [image |-> Empty,
          menu |-> [p |-> {Do("mkdir", A), Do("mkdir", AB), Do("creat", B), Do("creat", Here(<<"b">>)),
                           Do("mknod", B), Do("openw", A), Put("v"), Do("close", A), Ln(B, A), Ln(B, At(<<>>)),
                           Do("unlink", A), Do("unlink", B), Do("unlink", AB),
                           Do("chdir", AB), Do("chdir", Here(<<"..">>)), Do("unlink", Here(<<"..">>))},
                    q |-> {}]]

Pair == [image |-> Tree,
         menu |-> [p |-> {Ln(B, AB), Do("unlink", A), Do("unlink", B), Do("unlink", AB),
                          Do("openw", B), Put("w"), Do("close", B)},
                   q |-> {Ln(AB, B), Do("unlink", AB), Do("open", AB), Do("close", B),
                          Do("chdir", A), Do("unlink", Here(<<"..">>))}]]

One == [dinode |-> [Empty.dinode EXCEPT ![2] = Plain("file", 1)],
        ents   |-> [Empty.ents EXCEPT ![1]["b"] = 2],
        data   |-> [Empty.data EXCEPT ![2] = "v"]]

Reuse == [image |-> One,
          menu |-> [p |-> {Do("unlink", B), Do("open", B), Do("close", B)},
                    q |-> {Do("creat", A), Do("unlink", A), Do("close", A)}]]

MCSetups == {Alone, Pair, Reuse}
JustReuse == {Reuse}
=============================================================================
