------------------------------ MODULE MCDispatch ------------------------------
EXTENDS Dispatch

CONSTANTS rpc, topic

Plain1 == {rpc}
Events1 == {topic}
KindOf == [r \in Plain1 \cup Events1 |->
             IF r = rpc THEN "input_output" ELSE "input"]
===============================================================================
