------------------------------ MODULE MC_NdefOps ------------------------------
(* NdefOps with every NDEF call and doTransceive, a tag that may leave    *)
(* and come back, and the transceive alone.                                *)
EXTENDS NdefOps

MC_Ops == {"checkNdef", "read", "write", "format", "makeReadonly", "transceive"}
MC_TransceiveOps == {"transceive"}
\* NFA_RwReadNDef's status is not checked by doRead; the runs that check
\* liveness keep it accepted, and one run lets it be refused
MC_Refusable == {"DETECT", "WRITE", "FORMAT", "RO", "RAW"}
MC_RefusableAll == {"DETECT", "READ", "WRITE", "FORMAT", "RO", "RAW"}
=============================================================================
