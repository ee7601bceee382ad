SPECIFICATION Spec
CONSTANTS
  pa = pa
  pb = pb
  a0 = a0
  a1 = a1
  a2 = a2
  b0 = b0
  b1 = b1
  sa = sa
  sx = sx
  Nulo = Nulo
  Proceso = {pa, pb}
  Hilo = {a0, a1, a2, b0, b1}
  padre <- MCPadre
  principal <- MCPrincipal
  Nombre = {sa, sx}
  Semaforo = {sa}
  ValorInicial <- MCCero
  ValorMaximo <- MCUno
  MaxMultiprog = 1
  PuedenMorir = {pb}
INVARIANTS
  TypeOK
  SemaforoConsistente
  UnSoloLugar
  EsperaUnica
  MultiprogConservado
  NewSoloSinLugar
  RespuestaCorresponde
  MismoHilo
  SinRunningEspera
  Invariante
PROPERTIES
  ParoSoloPorAdmision
CHECK_DEADLOCK FALSE
SYMMETRY MCSimetria
