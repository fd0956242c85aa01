CONSTANTS
  Task = {t1}
  WordBits = 4
  FirstPage = 1
  EndPage = 8
  BootPage = 2
  Numbers = {1, 2}
SPECIFICATION Spec
CONSTRAINT Alone
PROPERTY
  NoneMeansNone
