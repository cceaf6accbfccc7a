------------------------------ MODULE MCBodies ------------------------------
(* The bodies a request brings and a response returns: a behaviour follows    *)
(* one of them, a bulk request, the reading of its lines, a JSON text, or the *)
(* response of a streamed search.                                             *)
EXTENDS BulkDemux, BulkText, JsonText, SearchScan

Init ==
  \/ BulkInit /\ BulkTextOff /\ JsonOff /\ ScanOff
  \/ BulkOff /\ BulkTextInit /\ JsonOff /\ ScanOff
  \/ BulkOff /\ BulkTextOff /\ JsonInit /\ ScanOff
  \/ BulkOff /\ BulkTextOff /\ JsonOff /\ ScanInit

Next ==
  \/ BulkNext /\ UNCHANGED <<reader, doc, scanVars>>
  \/ BulkTextNext /\ UNCHANGED <<bulkVars, doc, scanVars>>
  \/ WriteToken /\ UNCHANGED <<bulkVars, reader, scanVars>>
  \/ ScanNext /\ UNCHANGED <<bulkVars, reader, doc>>

Spec == Init /\ [][Next]_<<bulkVars, reader, doc, scanVars>>
=============================================================================
