---------------------------- MODULE MCDeepMerge -----------------------------
(* Up to three entries over two names, with paths of one to three keys. *)
EXTENDS DeepMergeProps

K == {"a", "b"}

Shallow == UNION {[1 .. n -> K] : n \in 1 .. 2}

SmallValues == {Number, {<<"a">>}, {<<"b">>}}

Entries == [path : Shallow, value : SmallValues]
             \cup [path : [1 .. 3 -> K], value : {Number}]

MCLiterals == UNION {[1 .. n -> Entries] : n \in 1 .. 3}

MCOuters == {{}, {<<<<"a", "a">>, 0>>}}
=============================================================================
