SPECIFICATION SpecMC
CONSTANTS
  pa = pa
  pb = pb
  pc0 = pc0
  a0 = a0
  a1 = a1
  a2 = a2
  b0 = b0
  b1 = b1
  c0 = c0
  sa = sa
  sb = sb
  sc = sc
  Nulo = Nulo
  Proceso = {pa, pb, pc0}
  Hilo = {a0, a1, b0, b1, c0}
  padre <- MCPadre
  principal <- MCPrincipal
  Nombre = {sa, sb, sc}
  Semaforo = {sa, sb}
  ValorInicial <- MCCero
  ValorMaximo <- MCUno
  MaxMultiprog = 1
  PuedenMorir = {}
  Llamadas <- MCLlamadas
  Programas <- MCDosElecciones
INVARIANTS
  TypeOKC
  ColaSoloEnCero
  EsperaNoPerdida
  NoEnDosListas
  RunningUnico
  SinEsperaCircular
CHECK_DEADLOCK FALSE
CONSTRAINT ExcesoAcotado
