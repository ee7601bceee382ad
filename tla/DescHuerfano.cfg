SPECIFICATION SpecV
CONSTANTS
  Nulo = Nulo
  Cliente <- MCClientes
  Numero <- MCNumeros
INVARIANT
  RecibeSuDestinatario
CONSTRAINT MCCotas
CHECK_DEADLOCK FALSE
