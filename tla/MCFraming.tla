------------------------------ MODULE MCFraming ------------------------------
\* Small scripts for Framing: bytes enough that frames are cut inside the
\* header and inside the payload, and that two frames share a read.
EXTENDS Framing, SequencesExt

\* The stream of frames with these payload lengths and kinds.
Stream(lengths, kinds) ==
    [count |-> Len(lengths),
     end   |-> [k \in 0..Len(lengths) |->
                  FoldLeft(LAMBDA sum, n : sum + HEADER + n, 0, SubSeq(lengths, 1, k))],
     kind  |-> kinds]
Plain(lengths) == Stream(lengths, [k \in 1..Len(lengths) |-> "plain"])

MCScripts ==
    { [client |-> Plain(<<1, 2, 1>>), server |-> Plain(<<2, 1>>)],
      \* the server comes to encode what no u16 counts
      [client |-> Plain(<<1, 2>>), server |-> Plain(<<1, 4, 1>>)] }
    \cup
      \* a peer of another version
    { [client |-> Stream(<<1, 1, 1>>, <<"plain", kind, "plain">>), server |-> Plain(<<1>>)] :
        kind \in Kinds }
    \cup
    { [client |-> Plain(<<1>>), server |-> Stream(<<2, 0, 1>>, <<"plain", kind, "plain">>)] :
        kind \in Kinds }
=============================================================================
