SPECIFICATION SpecV
CONSTANTS
  Nulo = Nulo
  Cliente <- MCClientes
  Numero <- MCNumeros
PROPERTY
  CierraAlQueSeFue
CONSTRAINT MCCotas
CHECK_DEADLOCK FALSE
