---------------------------- MODULE MCWorkManager -----------------------------
(***************************************************************************)
(* Instances of WorkManager: one batch of MWEB outputs, whose handler      *)
(* waits for its caller, and one of filter headers without a retry cap.    *)
(***************************************************************************)
EXTENDS WorkManager

MCBatches == {"utxos", "cfheaders"}
MCSize == [utxos |-> 2, cfheaders |-> 1]
MCOneEach == [utxos |-> 1, cfheaders |-> 1]
MCMaxRetries == [utxos |-> 2, cfheaders |-> 2]
MCNoRetryMax == {"cfheaders"}
MCRendezvous == {"utxos"}

(* A good peer, and a bad one.                                             *)
MCPeers == {"good", "bad"}
MCAddr == [good |-> "A", bad |-> "B"]
MCGood == {"good"}

(* Two bad ones.                                                           *)
MCBad == {"bad", "worse"}
MCBadAddr == [bad |-> "B", worse |-> "C"]

(* The batch of MWEB outputs alone.                                        *)
OneBatch == {"utxos"}
MCOneSize == [utxos |-> 1]
MCOneRetries == [utxos |-> 2]
===============================================================================
