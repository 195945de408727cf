--------------------------------- MODULE MCSnmp ---------------------------------
EXTENDS SnmpCollector

CONSTANT a

MCKindSeq == << "fan" >>
MCTables == << "lldp" >>
MCColumns == [t \in {"lldp"} |-> 2]
MCInitialSays == {[s \in Switches |-> [x \in Cells |-> a]]}
MCInitialHas == {[s \in Switches |-> [k \in Kinds |-> Instances]]}
===============================================================================
