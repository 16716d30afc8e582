------------------------------ MODULE MCDelivery ------------------------------
EXTENDS Delivery

CONSTANTS FromGate, FromBox     \* how many messages each side is offered

MCMaxMessages == [s \in Sides |-> IF s = "gate" THEN FromGate ELSE FromBox]

===============================================================================
