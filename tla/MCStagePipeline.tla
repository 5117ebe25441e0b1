--------------------------- MODULE MCStagePipeline ---------------------------
(* Two recordings of overlapping cameras.  The one analysed before found      *)
(* positions or a gap; that it finds none at all a re-analysis can say.       *)
EXTENDS StagePipeline

MCBudgets == {{"again", "crash"}, {"profile", "back"}}
MCInit == Init /\ \A r \in Analysed : telem[r].fix # "nofix"
MCSpec == MCInit /\ [][Next]_vars /\ \A r \in Recs : WF_vars(Step(r))
=============================================================================
