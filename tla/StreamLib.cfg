CONSTANT Threads = {t1, t2, t3}
SPECIFICATION SlotFairSpec
INVARIANTS CounterExact DesertedWhenClosed
PROPERTIES DrainEnds GateSpec
