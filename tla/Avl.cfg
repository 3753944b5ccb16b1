SPECIFICATION Spec
CONSTANT MaxKey = 6
INVARIANT SearchTree
 
