SPECIFICATION FairSpec
CONSTANTS
  pa = pa
  pb = pb
  a0 = a0
  a1 = a1
  a2 = a2
  b0 = b0
  b1 = b1
  sa = sa
  sx = sx
  Nulo = Nulo
  Proceso = {pa, pb}
  Hilo = {a0, a1, b0, b1}
  padre <- MCPadre
  principal <- MCPrincipal
  Nombre = {sa}
  Semaforo = {sa}
  ValorInicial <- MCCero
  ValorMaximo <- MCUno
  MaxMultiprog = 1
  PuedenMorir = {}
PROPERTIES
  ListoCorre
CHECK_DEADLOCK FALSE
