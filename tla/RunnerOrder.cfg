CONSTANT TaskCount = 3
SPECIFICATION Spec
INVARIANT SeriallyInOrder
