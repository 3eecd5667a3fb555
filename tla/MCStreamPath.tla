---------------------------- MODULE MCStreamPath ----------------------------
(***************************************************************************)
(* What a stream passes on its way to the file, in one run: the runner     *)
(* that follows an HLS playlist, and the two chains of processors, of      *)
(* which a recording has one.  Only one of the three takes steps.          *)
(***************************************************************************)
EXTENDS HlsRunner, FlvChain, HlsChain

\* Video configurations 1 and 2 are of one size and agree in their first 32 bytes, and so do the
\* contents 1 and 2 of a frame; configuration 3 differs there.
FlvFirstBytes == [b \in 1..3 |-> IF b = 3 THEN 2 ELSE 1]

VARIABLE part

allVars == <<part, vars, flvVars, hlsVars>>

\* A part that does not run has one initial state.
MCInit ==
    /\ Init /\ FlvInit /\ HlsChainInit
    /\ part \in {"runner", "flv", "hls"}
    /\ part # "runner" => origin.map = ""
    /\ part # "flv" => source.magic
    /\ part # "hls" => mode = "ts"

MCNext ==
    /\ UNCHANGED part
    /\ \/ part = "runner" /\ Next /\ UNCHANGED <<flvVars, hlsVars>>
       \/ part = "flv" /\ FlvNext /\ UNCHANGED <<vars, hlsVars>>
       \/ part = "hls" /\ HlsChainNext /\ UNCHANGED <<vars, flvVars>>

\* The fairness of HlsRunner.
MCSpec == MCInit /\ [][MCNext]_allVars /\ WF_vars(part = "runner" /\ Runner)
=============================================================================
