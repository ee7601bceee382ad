SPECIFICATION SpecMC
CONSTANTS
  pa = pa
  pb = pb
  pc0 = pc0
  a0 = a0
  a1 = a1
  a2 = a2
  b0 = b0
  b1 = b1
  c0 = c0
  sa = sa
  sb = sb
  sc = sc
  Nulo = Nulo
  Proceso = {pa, pb}
  Hilo = {a0, b0}
  padre <- MCPadre
  principal <- MCPrincipal
  Nombre = {sa}
  Semaforo = {sa}
  ValorInicial <- MCCero
  ValorMaximo <- MCUno
  MaxMultiprog = 1
  PuedenMorir = {}
  Llamadas <- MCLlamadas
  Programas <- MCSenales
INVARIANTS
  ValorAcotado
CHECK_DEADLOCK FALSE
