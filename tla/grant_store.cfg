SPECIFICATION Spec
CONSTANTS
  Shares = {s1, s2}
  Peers = {a}
  Groups = {g1, g2}
  Direct = direct
SYMMETRY Symmetry
INVARIANTS
  TypeOK
  GrantsJustified
  
 
