----------------------------- MODULE MCExtraction -----------------------------
(* A day of three documents with one request in each budget, and pages     *)
(* that show nothing, all that is required, or too little.                 *)
EXTENDS Extraction

MCTextModels   == <<"g1", "g2">>
MCVisionModels == <<"v1", "v2">>
MCReadings     == {{}, Required, {"vendor_name", "invoice_number", "parts"}}
=============================================================================
