---------------------------- MODULE MCChunkUpload ----------------------------
(* Instance of ChunkUpload: two sessions with files of one name and size,   *)
(* alike or unlike by their fingerprint.  Two sessions with the same file   *)
(* behave as two with alike files: nothing else looks at the content.       *)
EXTENDS ChunkUpload, TLC

CONSTANTS alike1, alike2,   \* share the fingerprint of the file print
          print,
          unlike1, unlike2

MCFiles == {alike1, alike2, print, unlike1, unlike2}
MCSample == [f \in MCFiles |-> IF f \in {alike1, alike2} THEN print ELSE f]
Pairs == {{alike1, alike2}, {unlike1, unlike2}}
MCChoices == {file \in [Tabs -> MCFiles] : {file[t] : t \in Tabs} \in Pairs}

(* Neither the sessions nor the files of a pair can be told apart: the      *)
(* properties are invariants and step properties, symmetric in both.        *)
Symmetry == Permutations(Tabs) \cup UNION {Permutations(pair) : pair \in Pairs}
=============================================================================
