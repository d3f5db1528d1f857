--------------------------- MODULE MCMpcMrtSystem ---------------------------
EXTENDS MpcMrtSystem

MCObservation == 0..MaxTime
MCPolicy == [time : 0..MaxTime, epoch : 1..MaxSessions]

\* Both loops, and the real-time loop in a process that is started anew.
MCSettings ==
    {[synchronized |-> TRUE, mpcUpdateRatio |-> 2,
      maxTime |-> 6, maxSessions |-> 1],
     [synchronized |-> FALSE, mpcUpdateRatio |-> 1,
      maxTime |-> 2, maxSessions |-> 1],
     [synchronized |-> FALSE, mpcUpdateRatio |-> 1,
      maxTime |-> 0, maxSessions |-> 2]}

\* The synchronized loop alone, with a policy for every step.
MCSynchronized ==
    {[synchronized |-> TRUE, mpcUpdateRatio |-> 1,
      maxTime |-> 2, maxSessions |-> 1]}
=============================================================================
