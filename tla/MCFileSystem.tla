---------------------------- MODULE MCFileSystem ----------------------------
EXTENDS FileSystem

Blank == [op |-> "rm", path |-> "ok", offset |-> 0, length |-> 0, truncate |-> FALSE,
          cuts |-> <<0>>, dir |-> FALSE, hash |-> FALSE]

\* The file has 3 bytes.  Puts before, at and after its end, of one packet and of two;
\* reads inside, across and after the end.
Puts == {[Blank EXCEPT !.op = "put", !.offset = o, !.truncate = t, !.cuts = p] :
            o \in {0, 1, 3, 4}, t \in BOOLEAN, p \in {<<2>>, <<3, 4>>}}
Gets == {[Blank EXCEPT !.op = "get", !.offset = o, !.length = n] :
            o \in {0, 1, 3, 4}, n \in {0, 1, 3}}
Listings == {[Blank EXCEPT !.op = "ls", !.dir = d, !.hash = h] : d, h \in BOOLEAN}
BadPaths == {[Blank EXCEPT !.op = o, !.path = "bad"] : o \in {"put", "get", "ls", "rm"}}
LongPaths == {[Blank EXCEPT !.op = "put", !.path = "long", !.cuts = <<1, 2>>],
              [Blank EXCEPT !.path = "long"]}

AllRequests == {Blank} \cup Puts \cup Gets \cup Listings \cup BadPaths \cup LongPaths
ThreeEntries == <<"dot", "dir", "file">>

\* The puts that replace the end of the file.
CutPuts == {r \in Puts : r.truncate}
=============================================================================
