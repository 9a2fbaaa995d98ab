-------------------------- MODULE IspParamAdaptor --------------------------
(***************************************************************************)
(* The ISP parameters of one stream: src/src/core/IspParamAdaptor.cpp.      *)
(*                                                                         *)
(* The adaptor owns a fixed number of buffers for the output of the PAL     *)
(* (the AIC run), kept in a multimap from sequence to buffer.  A run takes  *)
(* the buffer of its sequence or, when there is none, the one of the lowest *)
(* sequence; a second map gives the sequence of the data to use for a       *)
(* sequence, because the PAL need not run when nothing changed.             *)
(*                                                                         *)
(* An IspParameter is a record of the multimap mSequenceToDataMap, a set of *)
(* nodes [key, buf, valid], and the map mSequenceToDataId.                  *)
(***************************************************************************)
EXTENDS Integers, FiniteSets, Functions, FiniteSetsExt

Keys(param) == {node.key : node \in param.data}

\* allocateIspParamBuffers gives the buffers the keys -2, -3, ...; configure runs
\* the PAL without results into the first of the map, which becomes sequence -1.
InitialIspParameter(size) ==
    [data |-> {[key |-> IF i = size THEN -1 ELSE -i - 1, buf |-> i,
                valid |-> i = size] : i \in 1..size},
     ids  |-> [seq \in {-1} |-> -1]]

\* Mutant: the newest data is overwritten, not the oldest
NodeToWriteMutant(param, seq) ==
    LET key == IF seq >= 0 /\ seq \in Keys(param) THEN seq ELSE Max(Keys(param))
    IN  CHOOSE node \in param.data : node.key = key
\* runIspAdapt, first critical section: the node whose buffer is written
NodeToWrite(param, seq) ==
    LET key == IF seq >= 0 /\ seq \in Keys(param) THEN seq ELSE Min(Keys(param))
    IN  CHOOSE node \in param.data : node.key = key

\* updateIspParameterMap on mSequenceToDataId: at its limit the lowest goes
RecordDataId(ids, size, seq, dataSeq) ==
    LET kept == IF Cardinality(DOMAIN ids) >= size
                THEN DOMAIN ids \ {Min(DOMAIN ids)} ELSE DOMAIN ids
    IN  [s \in kept \cup {seq} |-> IF s = seq THEN dataSeq ELSE ids[s]]

\* runIspAdapt, second critical section, when the PAL has written the node's
\* buffer, and when it did not run (binaryData.size is 0)
AfterRun(param, size, seq, node) ==
    [data |-> (param.data \ {node})
                 \cup {[key |-> seq, buf |-> node.buf, valid |-> TRUE]},
     ids  |-> RecordDataId(param.ids, size, seq, seq)]

AfterNoRun(param, size, seq, node) ==
    LET last == Max(Keys(param))
    IN  [data |-> IF last # seq THEN param.data
                  ELSE param.data
                         \cup {[key |-> seq, buf |-> node.buf, valid |-> FALSE]},
         ids  |-> RecordDataId(param.ids, size, seq, last)]

NoNode == [key |-> -1, buf |-> 0, valid |-> FALSE]

\* getIpuParameter for a sequence of a frame
getIpuParameter(param, seq) ==
    IF seq \notin DOMAIN param.ids \/ param.ids[seq] \notin Keys(param) THEN NoNode
    ELSE CHOOSE node \in param.data :
            /\ node.key = param.ids[seq]
            /\ \/ node.valid
               \/ \A other \in param.data : other.key = node.key => ~other.valid

=============================================================================
