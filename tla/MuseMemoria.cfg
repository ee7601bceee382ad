SPECIFICATION Spec
CONSTANTS
  p1 = p1
  p2 = p2
  v1 = v1
  v2 = v2
  Nada = Nada
  Programas = {p1, p2}
  Valores = {v1, v2}
  Tamanios <- MCTamanios
  MaxPorciones = 2
  Prudentes = TRUE
  g_cantidadFrames = 3
  maxPaginasEnSwap = 5
  lengthPagina = 4
  tamanio_heap = 5
CHECK_DEADLOCK FALSE
INVARIANTS
  TypeOKMuse
  TablasConsistentes
  CaidaSoloPorSwap
  FramesDevueltos
  PorcionesAccesibles
PROPERTIES
  ImplementaMemoria
