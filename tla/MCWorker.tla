------------------------------ MODULE MCWorker ------------------------------
EXTENDS Worker

\* A native job, an orchestrated one with the same key and a bad message.
MCJobs == {"a", "o", "bad"}
MCOrder == <<"o", "bad", "a">>
MCMode == [j \in MCJobs |-> CASE j = "o" -> "orchestrator" [] j = "bad" -> "malformed"
                              [] OTHER -> "native"]
MCKey == [j \in MCJobs |-> IF j = "bad" THEN "nokey" ELSE "k"]
=============================================================================
