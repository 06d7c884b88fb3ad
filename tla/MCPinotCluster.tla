--------------------------- MODULE MCPinotCluster ---------------------------
(***************************************************************************)
(* Instances of PinotCluster for TLC.                                      *)
(***************************************************************************)
EXTENDS PinotCluster

CONSTANTS n1, n2,       \* names of nodes
          controller, broker, server, minion,
          g1, g2, g3,   \* config groups
          k1,           \* the one group of Kubernetes settings
          d1, d2        \* configurations

Order == <<controller, broker, server, minion>>

Node(name, type, group) == [name |-> name, type |-> type, group |-> group, k8s |-> k1]

Resource(order, nodes, configs) ==
    [order |-> order, nodes |-> nodes, configs |-> configs, k8s |-> {k1}]

Two == [g \in {g1, g2} |-> d1]

\* A controller and a minion, listed the other way round; the minion with a
\* changed configuration, with another group, gone, or made a broker that
\* shares the controller's group; an order of three types.
SpecsOfAll ==
    LET nodes == <<Node(n2, minion, g2), Node(n1, controller, g1)>>
    IN  {Resource(Order, nodes, Two),
         Resource(Order, nodes, [Two EXCEPT ![g2] = d2]),
         Resource(Order, <<Node(n2, minion, g3), nodes[2]>>, [g \in {g1, g3} |-> d1]),
         Resource(Order, <<nodes[2]>>, Two),
         Resource(Order, <<Node(n2, broker, g1), nodes[2]>>, Two),
         Resource(SubSeq(Order, 1, 3), nodes, Two)}
=============================================================================
