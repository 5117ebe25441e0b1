------------------------------- MODULE MCUnit -------------------------------
EXTENDS UnitServices

\* Reports with a clip that contradicts itself, an old one, one of a locked
\* clip, and one of another card and a clip that moved.
Still == [claim |-> "sampled_stationary", path |-> "Video", locked |-> FALSE, time |-> "bounded", window |-> 10,
          acc |-> 10, off |-> 0, speed |-> 9, gap |-> 5, samples |-> 3, moving |-> 0, top |-> 0, gps |-> 3,
          gpsmoving |-> 0, gpstop |-> 0, size |-> 1, mtime |-> 1]
MCReports == {
    [valid |-> TRUE, card |-> 1, age |-> 0, clips |-> <<Still, [Still EXCEPT !.gpsmoving = 1]>>],
    [valid |-> TRUE, card |-> 1, age |-> 2, clips |-> <<[Still EXCEPT !.claim = "acc_off_candidate", !.off = 9]>>],
    [valid |-> TRUE, card |-> 1, age |-> 0, clips |-> <<[Still EXCEPT !.path = "LockVideo"]>>],
    [valid |-> TRUE, card |-> 2, age |-> 1, clips |->
        <<[Still EXCEPT !.size = 2], [Still EXCEPT !.claim = "moving_observed", !.gpsmoving = 2, !.gpstop = 2]>>]}
MCRemote == <<[size |-> 1, mtime |-> 1], [size |-> 1, mtime |-> 1]>>
=============================================================================
