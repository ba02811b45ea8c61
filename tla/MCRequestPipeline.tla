-------------------------- MODULE MCRequestPipeline --------------------------
(***************************************************************************)
(* Small instances of RequestPipeline. The thread of the strand and the    *)
(* workers are model values; a status set by the application is 302.       *)
(***************************************************************************)
EXTENDS RequestPipelineProperties

CONSTANTS w1
OneWorker  == {w1}
AppStatus  == {302}
AllCatchers == {"respond", "swallow", "throw"}
AllViews    == {"quiet", "send", "throw"}
SendViews   == {"send"}
NoStatus    == {}
NoCatchers  == {"respond"}
=============================================================================
