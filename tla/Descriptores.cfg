SPECIFICATION SpecV
CONSTANTS
  Nulo = Nulo
  Cliente <- MCClientes
  Numero <- MCNumeros
INVARIANTS
  TypeOKDescriptores
  HiloLeeLoSuyo
  RespuestaPropia
  ListaDeVivos
  CaidaExplicada
CONSTRAINT MCCotas
CHECK_DEADLOCK FALSE
